---- MODULE Spec2Model ----
(***************************************************************************)
(* Model of the news-feed PUB/SUB server: the news store                   *)
(* (server/news_storage.py), the subscription registry                     *)
(* (server/subscription_manager.py) and the server core                    *)
(* (server/server.py): one worker thread per accepted connection.          *)
(*                                                                         *)
(* A worker thread is identified with the connection it serves.  Title and *)
(* lead of a news item are opaque pass-through text and are not modelled;  *)
(* the timestamp (datetime.now()) is a logical clock that advances with    *)
(* every append.                                                           *)
(***************************************************************************)
EXTENDS Integers, Sequences, FiniteSets, TLC

\* ------------------------------------------------------------------ bounds
\* config.py:33 sets MAX_NEWS_HISTORY = 100; the model scales the cap down.
MAX_NEWS_HISTORY == 2
\* number of appends (datetime.now() readings) explored by SpecStore
MaxClock == 4
\* length of the id list handed to remove_news_by_ids
MaxIdsLen == 2
\* number of Publish requests explored by Spec
MaxPublish == 2
\* the teardown-execution counter saturates here
MaxTeardownRuns == 2
\* largest limit handed to the queries of the store
MaxLimit == 3
\* number of characters of the text a peer sends to the read loop
MaxChars == 3
\* length of a field value and number of fields of a message given to create
MaxValueLen == 2
MaxFields == 2
\* number of bytes of a frame on the wire, the line feed included
FrameLen == 4

\* connections (socket objects); a worker thread is named after its connection
Conns == {"c1", "c2"}
\* the threads that take locks: the workers, the accept thread and the thread
\* that calls stop()
LockThreads == Conns \cup {"accept", "main"}
NoThread == "none"

\* config.py DEFAULT_CATEGORIES (two of the sixteen configured names)
DEFAULT_CATEGORIES == {"tecnologia", "esportes"}
\* category texts handed to the store and the registry: configured,
\* configured but in another case, not configured
InputCategories == {"tecnologia", "Esportes", "xyz"}
\* category texts the peers of Spec send
PeerCategories == {"Esportes", "xyz"}
\* category texts handed to the store in SpecStore
StoreCategories == {"tecnologia", "Esportes"}

\* str.lower() on the category texts of the model
Lower(s) == CASE s = "Esportes" -> "esportes"
              [] s = "Tecnologia" -> "tecnologia"
              [] OTHER -> s

\* SubscriptionManager.available_categories
available_categories == {Lower(cat) : cat \in DEFAULT_CATEGORIES}

\* protocol.py MessageType
SUBSCRIBE == "INSCREVER"
UNSUBSCRIBE == "REMOVER"
LIST_CATEGORIES == "LISTAR"
HISTORY == "HISTORICO"
DISCONNECT == "SAIR"
PUBLISH == "PUBLICAR"
NEWS_UPDATE == "NOTICIA"
NEWS_HISTORY == "HISTORICO_LISTA"
SUCCESS == "SUCESSO"
ERROR == "ERRO"
CATEGORIES_LIST == "CATEGORIAS"

VARIABLES
    \* NewsStorage
    news_list,            \* self.news_list: sequence of news records
    clock,                \* number of datetime.now() readings so far
    returned_ids,         \* history: ids returned by add_news, in call order
    last_op,              \* history: the last direct store call and its result
    \* SubscriptionManager
    subscriptions,        \* category -> set of connections
    client_subscriptions, \* connection -> set of categories (partial map)
    reg_lock,             \* holder of SubscriptionManager.lock
    call,                 \* a direct registry call of a thread, and its result
    last_call,            \* history: the last completed direct registry call
    \* NewsServer
    clients,              \* self.clients
    pc,                   \* position of each thread
    req,                  \* the frame a worker is processing
    out,                  \* frames a worker has sent while processing req
    subscribers,          \* _broadcast_news: the snapshot
    todo,                 \* _broadcast_news: snapshot members not yet visited
    failed_clients,       \* _broadcast_news: failed_clients list
    sock_closed,          \* socket.close() was called on the connection
    peer_gone,            \* the peer closed or reset the connection
    teardown_runs,        \* history: teardown executions per connection
    \* the environment of the store and of the sockets
    saved_file,           \* content of the file at self.storage_file
    disk_ok,              \* writing the file succeeds
    stalled,              \* the peer has stopped reading and its buffers are full
    sending,              \* the connection a worker's sendall is waiting on
    \* add_news step by step
    store_lock,           \* NewsStorage.lock: the thread holding it, or NoThread
    adding,               \* per thread: the category and the record of its add_news
    built,                \* history: the records built, in the order they were built
    \* the three locks, as the threads take and release them
    clients_lock,         \* NewsServer.clients_lock: the thread holding it
    steps,                \* per thread: the lock operations left on its code path
    \* two threads sending to one connection
    wire,                 \* the bytes the connection's peer receives, in order
    sent,                 \* per thread: how many bytes of its frame sendall has sent
    \* the lifecycle
    running,              \* self.running
    stopping,             \* the position of the thread that called stop()
    acceptor,             \* the position of the accept thread and the socket it holds
    \* the codec and the read loop, run on their own
    rx,                   \* _handle_client's read loop on a byte stream
    codec                 \* one Message.create / Message.parse round

storeVars == <<news_list, clock, returned_ids, last_op>>
regVars == <<subscriptions, client_subscriptions, reg_lock>>
callVars == <<call, last_call>>
srvVars == <<clients, req, out, subscribers, todo, failed_clients,
             sock_closed, peer_gone, teardown_runs>>
vars == <<news_list, clock, returned_ids, last_op,
          subscriptions, client_subscriptions, reg_lock, call, last_call,
          clients, pc, req, out, subscribers, todo, failed_clients,
          sock_closed, peer_gone, teardown_runs,
          saved_file, disk_ok, stalled, sending, store_lock, adding, built,
          clients_lock, steps, wire, sent, running, stopping, acceptor,
          rx, codec>>
persistVars == <<saved_file, disk_ok>>
lockVars == <<store_lock, adding, built, clients_lock, steps>>
wireVars == <<wire, sent>>
stopVars == <<running, stopping, acceptor>>
sideVars == <<stalled, sending, lockVars, wireVars, stopVars, rx, codec>>

\* ------------------------------------------------------------ small helpers
Range(s) == {s[i] : i \in DOMAIN s}
Min(a, b) == IF a < b THEN a ELSE b
\* s[-n:] of Python for n >= 0: the slice starts at index -n counted from
\* the end, and -0 is index 0, the start of the list
LastN(s, n) ==
    IF n = 0 \/ Len(s) <= n THEN s ELSE SubSeq(s, Len(s) - n + 1, Len(s))
SeqsUpTo(S, n) == UNION {[1..k -> S] : k \in 1..n}

\* ------------------------------------------------- the codec and the read loop
\* characters of the text on the wire: an ASCII letter, a letter that takes
\* two bytes in UTF-8, the line feed
Chars == {"a", "e_acute", "LF"}
\* str.encode(ENCODING): the two-byte letter becomes a lead byte and a
\* continuation byte
RECURSIVE Utf8Encode(_)
Utf8Encode(text) ==
    IF text = <<>> THEN <<>>
    ELSE (IF Head(text) = "e_acute" THEN <<"xC3", "xA9">> ELSE <<Head(text)>>)
         \o Utf8Encode(Tail(text))
\* bytes.decode(ENCODING), strict: a lead byte without its continuation byte,
\* or a continuation byte on its own, raises UnicodeDecodeError
RECURSIVE Utf8Decode(_)
Utf8Decode(bytes) ==
    IF bytes = <<>> THEN [ok |-> TRUE, text |-> <<>>]
    ELSE IF Head(bytes) = "xC3"
    THEN IF Len(bytes) >= 2 /\ bytes[2] = "xA9"
         THEN LET rest == Utf8Decode(SubSeq(bytes, 3, Len(bytes)))
              IN  [ok |-> rest.ok, text |-> <<"e_acute">> \o rest.text]
         ELSE [ok |-> FALSE, text |-> <<>>]
    ELSE IF Head(bytes) = "xA9" THEN [ok |-> FALSE, text |-> <<>>]
    ELSE LET rest == Utf8Decode(Tail(bytes))
         IN  [ok |-> rest.ok, text |-> <<Head(bytes)>> \o rest.text]
\* str.split('\n'): the pieces between line feeds, the last one included
RECURSIVE SplitLines(_, _)
SplitLines(text, piece) ==
    IF text = <<>> THEN <<piece>>
    ELSE IF Head(text) = "LF" THEN <<piece>> \o SplitLines(Tail(text), <<>>)
    ELSE SplitLines(Tail(text), Append(piece, Head(text)))

\* the read loop of _handle_client on its own: the bytes still to arrive, read
\* by read, the buffer, the lines handed to _process_message
NoRx == [stage |-> "idle", stream |-> <<>>, chunks |-> <<>>, buffer |-> <<>>,
         frames |-> <<>>]
\* one pass of the loop body on the bytes of one read (server.py:131-142)
ReadPass(state, chunk) ==
    LET data == Utf8Decode(chunk)
        messages == SplitLines(state.buffer \o data.text, <<>>)
    IN  IF ~data.ok
        THEN [state EXCEPT !.stage = "torn_down", !.chunks = <<>>]
        ELSE [state EXCEPT
                 !.buffer = messages[Len(messages)],
                 !.frames = @ \o SelectSeq(SubSeq(messages, 1, Len(messages) - 1),
                                           LAMBDA raw_msg : raw_msg # <<>>),
                 !.chunks = IF @ = <<>> THEN <<>> ELSE Tail(@),
                 !.stage = IF Len(state.chunks) <= 1 THEN "waiting" ELSE "reading"]
Texts == UNION {[1..n -> Chars] : n \in 1..MaxChars}

\* a peer sends the bytes of a text; they arrive in two reads, cut at an offset
RxStart(text, cut) ==
    /\ rx.stage = "idle"
    /\ cut \in 1..(Len(Utf8Encode(text)) - 1)
    /\ rx' = [NoRx EXCEPT !.stage = "reading", !.stream = Utf8Encode(text),
                          !.chunks = <<SubSeq(Utf8Encode(text), 1, cut),
                                       SubSeq(Utf8Encode(text), cut + 1,
                                              Len(Utf8Encode(text)))>>]
    /\ UNCHANGED <<storeVars, regVars, callVars, persistVars, stalled, sending, lockVars,
                   wireVars, stopVars,
                   codec,
                   pc, srvVars>>

\* recv returns the next part of the bytes and the loop body runs on it
RxRead ==
    /\ rx.stage = "reading"
    /\ rx' = ReadPass(rx, Head(rx.chunks))
    /\ UNCHANGED <<storeVars, regVars, callVars, persistVars, stalled, sending, lockVars,
                   wireVars, stopVars,
                   codec,
                   pc, srvVars>>

\* Message.create and Message.parse on their own.  A string is a sequence of
\* characters; the JSON text is a sequence of characters and punctuation.
NoCodec == [stage |-> "idle", msg_type |-> <<>>,
            data |-> [given |-> FALSE, items |-> <<>>], text |-> <<>>,
            frame |-> [ok |-> FALSE]]
\* the data argument of create: None, or a dict given by its items
None == [given |-> FALSE, items |-> <<>>]
Dict(pairs) == [given |-> TRUE, items |-> pairs]
\* an encoder that writes every character as is
EscapeNothing(c) == <<c>>
\* json.dumps of one character of a string, ensure_ascii=False: the quote, the
\* backslash and the line feed are escaped, a non-ASCII letter is written as is
EscapeChar(c) ==
    CASE c = "LF" -> <<"BSLASH", "n">>
      [] c = "QUOTE" -> <<"BSLASH", "QUOTE">>
      [] c = "BSLASH" -> <<"BSLASH", "BSLASH">>
      [] OTHER -> <<c>>
RECURSIVE EscapeAll(_)
EscapeAll(str) ==
    IF str = <<>> THEN <<>> ELSE EscapeChar(Head(str)) \o EscapeAll(Tail(str))
DumpsString(str) == <<"QUOTE">> \o EscapeAll(str) \o <<"QUOTE">>
\* the members of a dict of strings, in insertion order, separated by ", "
RECURSIVE DumpsMembers(_)
DumpsMembers(pairs) ==
    IF pairs = <<>> THEN <<>>
    ELSE DumpsString(pairs[1][1]) \o <<":", "SP">> \o DumpsString(pairs[1][2])
         \o (IF Len(pairs) > 1 THEN <<",", "SP">> ELSE <<>>)
         \o DumpsMembers(Tail(pairs))
\* the keys "type" and "data" of the message, each written as one character
TypeKey == <<"type">>
DataKey == <<"data">>
\* json.dumps(message, ensure_ascii=False) for message = {"type": .., "data": ..}
json_dumps(msg_type, data) ==
    <<"{">> \o DumpsString(TypeKey) \o <<":", "SP">> \o DumpsString(msg_type)
    \o <<",", "SP">> \o DumpsString(DataKey) \o <<":", "SP", "{">>
    \o DumpsMembers(data) \o <<"}", "}">>
\* Message.create: "data or {}", then the JSON text and one line feed
create(msg_type, data) ==
    json_dumps(msg_type, IF ~data.given \/ data.items = <<>> THEN <<>>
               ELSE data.items)
    \o <<"LF">>

\* str.strip(): white space at both ends removed
RECURSIVE strip(_)
strip(text) ==
    IF text = <<>> THEN <<>>
    ELSE IF Head(text) \in {"LF", "SP"} THEN strip(Tail(text))
    ELSE IF text[Len(text)] \in {"LF", "SP"}
    THEN strip(SubSeq(text, 1, Len(text) - 1))
    ELSE text
Failed == [ok |-> FALSE, value |-> <<>>, next |-> 0]
\* the JSON scanner inside a string, after the opening quote: up to the
\* closing quote, escapes undone; a raw line feed is not allowed in a string
RECURSIVE ScanString(_, _, _)
ScanString(text, i, acc) ==
    IF i > Len(text) THEN Failed
    ELSE IF text[i] = "QUOTE" THEN [ok |-> TRUE, value |-> acc, next |-> i + 1]
    ELSE IF text[i] = "LF" THEN Failed
    ELSE IF text[i] = "BSLASH"
    THEN IF i + 1 > Len(text) THEN Failed
         ELSE IF text[i + 1] = "n" THEN ScanString(text, i + 2, Append(acc, "LF"))
         ELSE IF text[i + 1] \in {"QUOTE", "BSLASH"}
         THEN ScanString(text, i + 2, Append(acc, text[i + 1]))
         ELSE Failed
    ELSE ScanString(text, i + 1, Append(acc, text[i]))
\* white space between tokens is skipped
RECURSIVE SkipSpace(_, _)
SkipSpace(text, i) ==
    IF i <= Len(text) /\ text[i] \in {"SP", "LF"} THEN SkipSpace(text, i + 1)
    ELSE i
At(text, i, c) == i <= Len(text) /\ text[i] = c
ParseString(text, i) ==
    IF At(text, i, "QUOTE") THEN ScanString(text, i + 1, <<>>) ELSE Failed
\* the members of an object of strings, from position i (after the brace or
\* after a comma) to the closing brace
RECURSIVE ParseMembers(_, _, _)
ParseMembers(text, i, acc) ==
    LET key == ParseString(text, SkipSpace(text, i))
        colon == SkipSpace(text, key.next)
        val == ParseString(text, SkipSpace(text, colon + 1))
        after == SkipSpace(text, val.next)
    IN  IF ~key.ok \/ ~At(text, colon, ":") THEN Failed
        ELSE IF ~val.ok THEN Failed
        ELSE IF At(text, after, ",")
        THEN ParseMembers(text, after + 1, Append(acc, <<key.value, val.value>>))
        ELSE IF At(text, after, "}")
        THEN [ok |-> TRUE, value |-> Append(acc, <<key.value, val.value>>),
              next |-> after + 1]
        ELSE Failed
ParseObject(text, i) ==
    IF ~At(text, i, "{") THEN Failed
    ELSE IF At(text, SkipSpace(text, i + 1), "}")
    THEN [ok |-> TRUE, value |-> <<>>, next |-> SkipSpace(text, i + 1) + 1]
    ELSE ParseMembers(text, i + 1, <<>>)
\* a dict from its items: a key given twice keeps its last value
AsMapping(pairs) ==
    [k \in {pairs[j][1] : j \in DOMAIN pairs} |->
        LET last == CHOOSE j \in DOMAIN pairs :
                        /\ pairs[j][1] = k
                        /\ \A h \in DOMAIN pairs : pairs[h][1] = k => h <= j
        IN  pairs[last][2]]
\* json.loads of a message text: an object with the members "type", a string,
\* and "data", an object of strings; anything else is reported as not parsed
json_loads(text) ==
    LET k1 == IF At(text, 1, "{")
              THEN ParseString(text, SkipSpace(text, 2)) ELSE Failed
        c1 == SkipSpace(text, k1.next)
        v1 == ParseString(text, SkipSpace(text, c1 + 1))
        s1 == SkipSpace(text, v1.next)
        k2 == ParseString(text, SkipSpace(text, s1 + 1))
        c2 == SkipSpace(text, k2.next)
        v2 == ParseObject(text, SkipSpace(text, c2 + 1))
        e2 == SkipSpace(text, v2.next)
    IN  IF ~k1.ok \/ k1.value # TypeKey \/ ~At(text, c1, ":") THEN [ok |-> FALSE]
        ELSE IF ~v1.ok \/ ~At(text, s1, ",") THEN [ok |-> FALSE]
        ELSE IF ~k2.ok \/ k2.value # DataKey \/ ~At(text, c2, ":") THEN [ok |-> FALSE]
        ELSE IF ~v2.ok \/ ~At(text, e2, "}") \/ e2 # Len(text) THEN [ok |-> FALSE]
        ELSE [ok |-> TRUE, type |-> v1.value, data |-> AsMapping(v2.value)]
\* Message.parse: json.loads(raw_message.strip()); text that is not JSON
\* becomes an Error message
parse_message(raw_message) ==
    LET loaded == json_loads(strip(raw_message))
    IN  IF loaded.ok THEN loaded
        ELSE [ok |-> TRUE, type |-> <<ERROR>>,
              data |-> AsMapping(<<<<<<"message">>, <<"Formato inválido">>>>>>)]

\* the characters of the strings given to create
StringChars == {"n", "e_acute", "LF", "QUOTE", "BSLASH"}
FieldValues == UNION {[1..n -> StringChars] : n \in 0..MaxValueLen}
FieldNames == {<<"n">>, <<"e_acute", "LF">>}
MessageTypes == {<<"n">>, <<"e_acute", "QUOTE">>}
\* dicts of at most MaxFields items, as their items in insertion order: the
\* names are distinct
NameOrders(n) ==
    {names \in [1..n -> FieldNames] :
        \A i, j \in 1..n : i # j => names[i] # names[j]}
Items(names, values) == [i \in DOMAIN names |-> <<names[i], values[i]>>]
FieldCounts == {m \in 0..MaxFields : m <= Cardinality(FieldNames)}

\* a caller builds a message
CodecCreate(msg_type, data) ==
    /\ codec.stage = "idle"
    /\ codec' = [NoCodec EXCEPT !.stage = "created", !.msg_type = msg_type,
                                !.data = data, !.text = create(msg_type, data)]
    /\ UNCHANGED <<storeVars, regVars, callVars, persistVars, stalled, sending, lockVars,
                   wireVars, stopVars,
                   rx,
                   pc, srvVars>>

\* the receiver parses the line
CodecParse ==
    /\ codec.stage = "created"
    /\ codec' = [codec EXCEPT !.stage = "parsed",
                              !.frame = parse_message(codec.text)]
    /\ UNCHANGED <<storeVars, regVars, callVars, persistVars, stalled, sending, lockVars,
                   wireVars, stopVars,
                   rx,
                   pc, srvVars>>

\* ------------------------------------------------------------- NewsStorage
NoNews == [id |-> 0, category |-> "", timestamp |-> 0]
NoOp == [op |-> "none", ids |-> <<>>, before |-> <<>>, news |-> NoNews,
         removed_count |-> 0, not_found |-> <<>>,
         category |-> "", limit |-> 0, result |-> <<>>,
         written |-> TRUE, raised |-> FALSE]

\* the file: readable content that is a list of news, or something json.load
\* rejects (also a file cut short by a write that failed)
FileOf(list) == [readable |-> TRUE, news |-> list]
Unreadable == [readable |-> FALSE, news |-> <<>>]

\* _save_to_file: open(..., 'w') and json.dump; when writing fails the file is
\* left as it was (open failed) or cut short (the dump failed)
FileAfterSave(list) ==
    IF disk_ok THEN {FileOf(list)} ELSE {saved_file, Unreadable}
\* _save_to_file: the exception of a failed write is caught and printed
save_propagates_failure(write_ok) == ~write_ok
save_propagates(write_ok) == FALSE

\* add_news: the record built at news_storage.py:62-68
NewNews(list, category, now) ==
    [id |-> Len(list) + 1, category |-> Lower(category), timestamp |-> now]

\* add_news: append, then cut to the cap (news_storage.py:70-74)
AppendCappedKeepOldest(list, news) ==
    LET appended == Append(list, news)
    IN  IF Len(appended) > MAX_NEWS_HISTORY
        THEN SubSeq(appended, 1, MAX_NEWS_HISTORY)
        ELSE appended
AppendCapped(list, news) ==
    LET appended == Append(list, news)
    IN  IF Len(appended) > MAX_NEWS_HISTORY
        THEN LastN(appended, MAX_NEWS_HISTORY)
        ELSE appended

\* the whole critical section of add_news, on the store's variables
add_news(category) ==
    LET now == clock + 1
        news == NewNews(news_list, category, now)
    IN  /\ news_list' = AppendCapped(news_list, news)
        /\ clock' = now
        /\ returned_ids' = Append(returned_ids, news.id)
        /\ saved_file' \in FileAfterSave(AppendCapped(news_list, news))

\* remove_news_by_ids: the filter at news_storage.py:134
KeepNotListedFirstOnly(list, news_ids) ==
    SelectSeq(list, LAMBDA n : n.id # news_ids[1])
KeepNotListed(list, news_ids) ==
    SelectSeq(list, LAMBDA n : n.id \notin Range(news_ids))

\* remove_news_by_ids: removed_ids as computed at news_storage.py:137-140,
\* from the list that was already filtered
RemovedIds(filtered, news_ids) ==
    {filtered[i].id : i \in {j \in DOMAIN filtered : filtered[j].id \in Range(news_ids)}}

\* remove_news_by_ids: not_found as computed at news_storage.py:142-145
NotFound(filtered, news_ids) ==
    SelectSeq(news_ids, LAMBDA x : x \notin RemovedIds(filtered, news_ids))

\* ------------------------------------------- the locks along the code paths
\* a "with lock:" block that calls nothing that takes a lock
With(lock) == <<[op |-> "acquire", lock |-> lock], [op |-> "release", lock |-> lock]>>
\* SubscriptionManager.subscribe / unsubscribe / get_subscribers /
\* get_client_subscriptions / remove_client: one block on self.lock
RegistryCall == With("registry")
\* NewsStorage.add_news: one block on self.lock, _save_to_file inside it
StoreCall == With("store")
\* "with self.clients_lock": add, discard, or the loop of stop()
ClientsBlock == With("clients")
\* _broadcast_news cleanup taking clients_lock inside the registry lock
CleanupLocksNested ==
    <<[op |-> "acquire", lock |-> "registry"], [op |-> "acquire", lock |-> "clients"],
      [op |-> "release", lock |-> "clients"], [op |-> "release", lock |-> "registry"]>>
\* _broadcast_news: per failed client, remove_client then the discard
CleanupLocks == RegistryCall \o ClientsBlock
\* _process_message, PUBLISH: add_news, get_subscribers, the cleanup of the
\* failed clients (none, one or two)
PublishLocks(failed) ==
    StoreCall \o RegistryCall
    \o (IF failed >= 1 THEN CleanupLocks ELSE <<>>)
    \o (IF failed >= 2 THEN CleanupLocks ELSE <<>>)
\* _disconnect_client: get_client_subscriptions, remove_client, the discard
TeardownLocks == RegistryCall \o RegistryCall \o ClientsBlock
\* the code paths of a worker thread
WorkerPaths ==
    {RegistryCall, TeardownLocks} \cup {PublishLocks(failed) : failed \in 0..Cardinality(Conns)}

Holds(t) ==
    {l \in {"registry", "store", "clients"} :
        \/ l = "registry" /\ reg_lock = t
        \/ l = "store" /\ store_lock = t
        \/ l = "clients" /\ clients_lock = t}
Holder(lock) ==
    CASE lock = "registry" -> reg_lock
      [] lock = "store" -> store_lock
      [] lock = "clients" -> clients_lock
\* what a step on the locks leaves alone
locksFrame == <<news_list, clock, returned_ids, last_op, subscriptions,
                client_subscriptions, callVars, persistVars, stalled, sending,
                adding, built, wireVars, stopVars, rx, codec, pc, srvVars>>
SetHolder(lock, t) ==
    /\ reg_lock' = IF lock = "registry" THEN t ELSE reg_lock
    /\ store_lock' = IF lock = "store" THEN t ELSE store_lock
    /\ clients_lock' = IF lock = "clients" THEN t ELSE clients_lock

\* a thread enters one of its code paths
PathBegin(t, path) ==
    /\ steps[t] = <<>>
    /\ steps' = [steps EXCEPT ![t] = path]
    /\ UNCHANGED <<reg_lock, store_lock, clients_lock, locksFrame>>

\* Lock.acquire: returns when the lock is free
LockAcquire(t) ==
    /\ steps[t] # <<>> /\ Head(steps[t]).op = "acquire"
    /\ Holder(Head(steps[t]).lock) = NoThread
    /\ SetHolder(Head(steps[t]).lock, t)
    /\ steps' = [steps EXCEPT ![t] = Tail(@)]
    /\ UNCHANGED locksFrame

\* the end of the with block
LockRelease(t) ==
    /\ steps[t] # <<>> /\ Head(steps[t]).op = "release"
    /\ SetHolder(Head(steps[t]).lock, NoThread)
    /\ steps' = [steps EXCEPT ![t] = Tail(@)]
    /\ UNCHANGED locksFrame

\* ------------------------------------- two sendall calls on one connection
\* the frame thread t sends, byte by byte; the last byte is the line feed
FrameOf(t) == [i \in 1..FrameLen |-> [from |-> t, byte |-> i]]

\* socket.sendall: a loop of send calls, each of which hands the kernel some
\* of the bytes that are left; nothing keeps another thread's send on the
\* same socket from running between two of them
SendPart(t, n) ==
    /\ sent[t] < FrameLen
    /\ n \in 1..(FrameLen - sent[t])
    /\ wire' = wire \o SubSeq(FrameOf(t), sent[t] + 1, sent[t] + n)
    /\ sent' = [sent EXCEPT ![t] = @ + n]
    /\ UNCHANGED <<storeVars, regVars, callVars, persistVars, stalled, sending,
                   lockVars, stopVars, rx, codec, pc, srvVars>>

\* ------------------------------------------------- add_news, step by step
\* what a step of add_news leaves alone
addFrame == <<returned_ids, last_op, regVars, callVars, disk_ok, stalled, sending,
              clients_lock, steps, wireVars, stopVars, rx, codec, srvVars>>
AddsStarted ==
    Len(built) + Cardinality({t \in Conns : pc[t] \in {"add_wait", "add_build"}})

\* a thread calls add_news and reaches "with self.lock"
AddCall(t, category) ==
    /\ pc[t] = "store_idle"
    /\ AddsStarted < MaxClock
    /\ adding' = [adding EXCEPT ![t] = [category |-> category, news |-> NoNews]]
    /\ pc' = [pc EXCEPT ![t] = "add_wait"]
    /\ UNCHANGED <<news_list, clock, store_lock, built, saved_file, addFrame>>

\* "with self.lock" entered without waiting for the lock
AddLockUnguarded(t) ==
    /\ pc[t] = "add_wait"
    /\ store_lock' = t
    /\ pc' = [pc EXCEPT ![t] = "add_build"]
    /\ UNCHANGED <<news_list, clock, adding, built, saved_file, addFrame>>
\* "with self.lock": the lock is acquired when it is free
AddLock(t) ==
    /\ pc[t] = "add_wait"
    /\ store_lock = NoThread
    /\ store_lock' = t
    /\ pc' = [pc EXCEPT ![t] = "add_build"]
    /\ UNCHANGED <<news_list, clock, adding, built, saved_file, addFrame>>

\* the record is built: id = len(self.news_list) + 1, the time is read
AddBuild(t) ==
    /\ pc[t] = "add_build"
    /\ clock' = clock + 1
    /\ adding' = [adding EXCEPT ![t].news =
                      NewNews(news_list, adding[t].category, clock + 1)]
    /\ built' = Append(built,
                          NewNews(news_list, adding[t].category, clock + 1))
    /\ pc' = [pc EXCEPT ![t] = "add_append"]
    /\ UNCHANGED <<news_list, store_lock, saved_file, addFrame>>

\* self.news_list.append(news)
AddAppend(t) ==
    /\ pc[t] = "add_append"
    /\ news_list' = Append(news_list, adding[t].news)
    /\ pc' = [pc EXCEPT ![t] = "add_cut"]
    /\ UNCHANGED <<clock, lockVars, saved_file, addFrame>>

\* the cut to the last MAX_NEWS_HISTORY records
AddCut(t) ==
    /\ pc[t] = "add_cut"
    /\ news_list' = IF Len(news_list) > MAX_NEWS_HISTORY
                    THEN LastN(news_list, MAX_NEWS_HISTORY) ELSE news_list
    /\ pc' = [pc EXCEPT ![t] = "add_open"]
    /\ UNCHANGED <<clock, lockVars, saved_file, addFrame>>

\* _save_to_file: open(..., 'w') empties the file
AddOpen(t) ==
    /\ pc[t] = "add_open"
    /\ saved_file' = Unreadable
    /\ pc' = [pc EXCEPT ![t] = "add_dump"]
    /\ UNCHANGED <<news_list, clock, lockVars, addFrame>>

\* _save_to_file: json.dump writes self.news_list; the file is closed
AddDump(t) ==
    /\ pc[t] = "add_dump"
    /\ saved_file' = FileOf(news_list)
    /\ pc' = [pc EXCEPT ![t] = "add_unlock"]
    /\ UNCHANGED <<news_list, clock, lockVars, addFrame>>

\* the end of the with block, "return news"
AddUnlock(t) ==
    /\ pc[t] = "add_unlock"
    /\ store_lock' = IF store_lock = t THEN NoThread ELSE store_lock
    /\ returned_ids' = Append(returned_ids, adding[t].news.id)
    /\ pc' = [pc EXCEPT ![t] = "store_idle"]
    /\ UNCHANGED <<news_list, clock, adding, built, saved_file, last_op, regVars,
                   callVars, disk_ok, stalled, sending, clients_lock, steps, wireVars, stopVars,
                   rx, codec,
                   srvVars>>

\* --------------------------------------------------- direct store operations
StoreAdd(category) ==
    /\ clock < MaxClock
    /\ add_news(category)
    /\ last_op' = [NoOp EXCEPT !.op = "add", !.before = news_list,
                               !.news = NewNews(news_list, category, clock + 1),
                               !.written = disk_ok,
                               !.raised = save_propagates(disk_ok)]
    /\ UNCHANGED <<regVars, callVars, disk_ok, sideVars, pc, srvVars>>

StoreRemove(news_ids) ==
    LET filtered == KeepNotListed(news_list, news_ids)
    IN  /\ news_list' = filtered
        /\ last_op' = [NoOp EXCEPT !.op = "remove", !.ids = news_ids,
                                   !.before = news_list,
                                   !.removed_count = Len(news_list) - Len(filtered),
                                   !.not_found = NotFound(filtered, news_ids),
                                   !.written = disk_ok,
                                   !.raised =
                                       /\ Len(news_list) - Len(filtered) > 0
                                       /\ save_propagates(disk_ok)]
        /\ IF Len(news_list) - Len(filtered) > 0
           THEN saved_file' \in FileAfterSave(filtered)
           ELSE saved_file' = saved_file
        /\ UNCHANGED <<clock, returned_ids, regVars, callVars, disk_ok, sideVars,
                       pc, srvVars>>

\* a clear_history that does not write the file
StoreClearUnsaved ==
    /\ news_list' = <<>>
    /\ last_op' = [NoOp EXCEPT !.op = "clear", !.before = news_list,
                               !.written = disk_ok,
                               !.raised = save_propagates(disk_ok)]
    /\ UNCHANGED <<clock, returned_ids, regVars, callVars, persistVars, sideVars,
                   pc, srvVars>>
StoreClear ==
    /\ news_list' = <<>>
    /\ last_op' = [NoOp EXCEPT !.op = "clear", !.before = news_list,
                               !.written = disk_ok,
                               !.raised = save_propagates(disk_ok)]
    /\ saved_file' \in FileAfterSave(<<>>)
    /\ UNCHANGED <<clock, returned_ids, regVars, callVars, disk_ok, sideVars,
                   pc, srvVars>>

IdInputs == 1..(MAX_NEWS_HISTORY + 1)

\* the disk starts or stops failing (full, read-only, permissions)
DiskBreaks ==
    /\ disk_ok /\ disk_ok' = FALSE
    /\ UNCHANGED <<storeVars, regVars, callVars, saved_file, sideVars, pc, srvVars>>
DiskRecovers ==
    /\ ~disk_ok /\ disk_ok' = TRUE
    /\ UNCHANGED <<storeVars, regVars, callVars, saved_file, sideVars, pc, srvVars>>

\* get_news_by_category: the filter and the slice (news_storage.py:91-92)
get_news_by_category_unfiltered(list, category, limit) == LastN(list, limit)
get_news_by_category(list, category, limit) ==
    LastN(SelectSeq(list, LAMBDA n : n.category = Lower(category)), limit)

\* get_all_news: the slice (news_storage.py:105)
get_all_news(list, limit) == LastN(list, limit)

StoreQueryByCategory(category, limit) ==
    /\ last_op' = [NoOp EXCEPT !.op = "query_category", !.before = news_list,
                               !.category = category, !.limit = limit,
                               !.result = get_news_by_category(news_list, category, limit)]
    /\ UNCHANGED <<news_list, clock, returned_ids, regVars, callVars, persistVars,
                   sideVars, pc, srvVars>>

StoreQueryAll(limit) ==
    /\ last_op' = [NoOp EXCEPT !.op = "query_all", !.before = news_list,
                               !.limit = limit,
                               !.result = get_all_news(news_list, limit)]
    /\ UNCHANGED <<news_list, clock, returned_ids, regVars, callVars, persistVars,
                   sideVars, pc, srvVars>>

\* the limits a caller of the store passes: any number from 0 on
Limits == 0..MaxLimit

\* a file a previous run of the server left behind after n appends: the file
\* is read as it is, whatever cap that run was configured with
PersistedFile(n) ==
    [i \in 1..n |-> [id |-> i,
                     category |-> IF i % 2 = 1 THEN "tecnologia" ELSE "esportes",
                     timestamp |-> i - n]]
PersistedFiles == {PersistedFile(n) : n \in 0..(MAX_NEWS_HISTORY + 1)}

\* NewsStorage.__init__ has run up to the call of _load_from_file
Constructing == last_op.op = "new"

\* _load_from_file: the file exists and json.load succeeds
StoreLoad(file) ==
    /\ Constructing
    /\ news_list' = file
    /\ last_op' = [NoOp EXCEPT !.op = "load"]
    /\ saved_file' = FileOf(file)
    /\ UNCHANGED <<clock, returned_ids, regVars, callVars, disk_ok, sideVars,
                   pc, srvVars>>

\* _load_from_file: there is no file, or reading it raises
StoreLoadEmpty ==
    /\ Constructing
    /\ news_list' = <<>>
    /\ last_op' = [NoOp EXCEPT !.op = "load"]
    /\ UNCHANGED <<clock, returned_ids, regVars, callVars, persistVars, sideVars,
                   pc, srvVars>>

\* ----------------------------------------------------- SubscriptionManager
\* the keys of client_subscriptions
Known(c) == c \in DOMAIN client_subscriptions

\* subscribe: self.subscriptions[category].add(client_socket)
AddSubscriber(subs, c, category) == [subs EXCEPT ![category] = @ \cup {c}]

\* subscribe: create the reverse entry when missing, then add the category
AddCategoryOverwrite(csubs, c, category) ==
    [x \in DOMAIN csubs \cup {c} |-> IF x = c THEN {category} ELSE csubs[x]]
AddCategory(csubs, c, category) ==
    [x \in DOMAIN csubs \cup {c} |->
        IF x = c
        THEN (IF c \in DOMAIN csubs THEN csubs[c] ELSE {}) \cup {category}
        ELSE csubs[x]]

\* unsubscribe: self.subscriptions[category].discard(client_socket)
DiscardSubscriberForgotten(subs, c, category) == subs
DiscardSubscriber(subs, c, category) == [subs EXCEPT ![category] = @ \ {c}]

\* unsubscribe: self.client_subscriptions[client_socket].discard(category)
DiscardCategory(csubs, c, category) == [csubs EXCEPT ![c] = @ \ {category}]

\* remove_client: the loop that discards the client from its categories
PurgeFromOneCategory(subs, c, categories) ==
    IF categories = {} THEN subs
    ELSE LET k == CHOOSE x \in categories : TRUE
         IN  [subs EXCEPT ![k] = @ \ {c}]
PurgeClearsCategories(subs, c, categories) ==
    [k \in DOMAIN subs |-> IF k \in categories THEN {} ELSE subs[k]]
PurgeFromCategories(subs, c, categories) ==
    [k \in DOMAIN subs |-> IF k \in categories THEN subs[k] \ {c} ELSE subs[k]]

\* remove_client: del self.client_subscriptions[client_socket]
DropClient(csubs, c) == [x \in DOMAIN csubs \ {c} |-> csubs[x]]

\* get_client_subscriptions
get_client_subscriptions(c) ==
    IF Known(c) THEN client_subscriptions[c] ELSE {}

\* get_subscribers
get_subscribers(category) ==
    IF Lower(category) \in DOMAIN subscriptions
    THEN subscriptions[Lower(category)] ELSE {}

\* subscribe(c, category) by thread t: "with self.lock", the forward map
subscribe_enter(t, c, category) ==
    /\ Lower(category) \in available_categories
    /\ reg_lock = NoThread
    /\ reg_lock' = t
    /\ subscriptions' = AddSubscriber(subscriptions, c, Lower(category))
    /\ UNCHANGED client_subscriptions

\* subscribe: the "already subscribed" test on the reverse map
AlreadySubscribedNever(c, category) == FALSE
AlreadySubscribed(c, category) ==
    Known(c) /\ Lower(category) \in client_subscriptions[c]

\* subscribe: the reverse map, then the lock is released
subscribe_finish(c, category) ==
    /\ reg_lock' = NoThread
    /\ client_subscriptions' =
          IF AlreadySubscribed(c, category) THEN client_subscriptions
          ELSE AddCategory(client_subscriptions, c, Lower(category))
    /\ UNCHANGED subscriptions

\* unsubscribe: the two early returns; the lock is taken and released
unsubscribe_refused(c, category) ==
    /\ reg_lock = NoThread
    /\ IF Known(c) THEN Lower(category) \notin client_subscriptions[c] ELSE TRUE
    /\ UNCHANGED regVars

\* unsubscribe(c, category) by thread t: "with self.lock", the forward map
unsubscribe_enter(t, c, category) ==
    /\ reg_lock = NoThread
    /\ Known(c) /\ Lower(category) \in client_subscriptions[c]
    /\ reg_lock' = t
    /\ subscriptions' = DiscardSubscriber(subscriptions, c, Lower(category))
    /\ UNCHANGED client_subscriptions

\* unsubscribe: the reverse map, then the lock is released
unsubscribe_finish(c, category) ==
    /\ reg_lock' = NoThread
    /\ client_subscriptions' =
          DiscardCategory(client_subscriptions, c, Lower(category))
    /\ UNCHANGED subscriptions

\* remove_client(c) when c has no reverse entry: lock taken and released
remove_client_absent(c) ==
    /\ reg_lock = NoThread
    /\ ~Known(c)
    /\ UNCHANGED regVars

\* remove_client(c) by thread t: "with self.lock", the loop over its categories
remove_client_enter(t, c) ==
    /\ reg_lock = NoThread
    /\ Known(c)
    /\ reg_lock' = t
    /\ subscriptions' =
          PurgeFromCategories(subscriptions, c, client_subscriptions[c])
    /\ UNCHANGED client_subscriptions

\* remove_client: the reverse entry is deleted, then the lock is released
remove_client_finish(c) ==
    /\ reg_lock' = NoThread
    /\ client_subscriptions' = DropClient(client_subscriptions, c)
    /\ UNCHANGED subscriptions

\* ------------------------------------------- direct registry calls by threads
NoMap == [x \in {} |-> {}]
\* a completed call: what was called and whether it succeeded
NoLast == [op |-> "", conn |-> "", category |-> "", ok |-> FALSE]
\* a call of a thread: its arguments and its result; while it runs, the two
\* maps as they were when it began and the call completed before it; once it
\* has returned, whether it came right after its counterpart
NoCall == [op |-> "", conn |-> "", category |-> "", ok |-> FALSE, message |-> "",
           subs0 |-> NoMap, csubs0 |-> NoMap, after |-> NoLast, follows |-> FALSE]
Called(op, c, category) ==
    [NoCall EXCEPT !.op = op, !.conn = c, !.category = category,
                   !.subs0 = subscriptions, !.csubs0 = client_subscriptions,
                   !.after = last_call]
\* subscribe(c, k) right after a successful unsubscribe(c, k), or
\* remove_client(c) right after remove_client(c)
Follows(rec) ==
    /\ rec.after.conn = rec.conn
    /\ \/ /\ rec.op = "subscribe" /\ rec.after.op = "unsubscribe" /\ rec.after.ok
          /\ Lower(rec.after.category) = Lower(rec.category)
       \/ rec.op = "remove_client" /\ rec.after.op = "remove_client"
Completed(rec, ok, message) ==
    [rec EXCEPT !.ok = ok, !.message = message, !.subs0 = NoMap, !.csubs0 = NoMap,
                !.after = NoLast, !.follows = Follows(rec)]
Summary(rec) ==
    [op |-> rec.op, conn |-> rec.conn, category |-> rec.category, ok |-> rec.ok]
\* a call that returns in the step that began it
ReturnedAtOnce(t, rec, ok, message) ==
    /\ call' = [call EXCEPT ![t] = Completed(rec, ok, message)]
    /\ last_call' = Summary(Completed(rec, ok, message))
Returned(t, ok, message) == ReturnedAtOnce(t, call[t], ok, message)

harnessFrame == <<storeVars, srvVars, persistVars, sideVars>>

CallSubscribeUnknownRegisters(t, c, category) ==
    /\ pc[t] = "api"
    /\ Lower(category) \notin available_categories
    /\ ReturnedAtOnce(t, Called("subscribe", c, category), FALSE, "unknown category")
    /\ pc' = [pc EXCEPT ![t] = "returned"]
    /\ client_subscriptions' = AddCategory(client_subscriptions, c, Lower(category))
    /\ UNCHANGED <<subscriptions, reg_lock, harnessFrame>>
CallSubscribeUnknown(t, c, category) ==
    /\ pc[t] = "api"
    /\ Lower(category) \notin available_categories
    /\ ReturnedAtOnce(t, Called("subscribe", c, category), FALSE, "unknown category")
    /\ pc' = [pc EXCEPT ![t] = "returned"]
    /\ UNCHANGED <<regVars, harnessFrame>>

CallSubscribeEnter(t, c, category) ==
    /\ pc[t] = "api"
    /\ subscribe_enter(t, c, category)
    /\ call' = [call EXCEPT ![t] = Called("subscribe", c, category)]
    /\ pc' = [pc EXCEPT ![t] = "sub_reverse"]
    /\ UNCHANGED <<last_call, harnessFrame>>

CallSubscribeFinish(t) ==
    /\ pc[t] = "sub_reverse"
    /\ subscribe_finish(call[t].conn, call[t].category)
    /\ IF AlreadySubscribed(call[t].conn, call[t].category)
       THEN Returned(t, FALSE, "already subscribed")
       ELSE Returned(t, TRUE, "subscribed")
    /\ pc' = [pc EXCEPT ![t] = "returned"]
    /\ UNCHANGED harnessFrame

CallUnsubscribeRefusedSilently(t, c, category) ==
    /\ pc[t] = "api"
    /\ unsubscribe_refused(c, category)
    /\ ReturnedAtOnce(t, Called("unsubscribe", c, category), TRUE, "unsubscribed")
    /\ pc' = [pc EXCEPT ![t] = "returned"]
    /\ UNCHANGED harnessFrame
CallUnsubscribeRefused(t, c, category) ==
    /\ pc[t] = "api"
    /\ unsubscribe_refused(c, category)
    /\ ReturnedAtOnce(t, Called("unsubscribe", c, category), FALSE,
                      IF Known(c) THEN "not subscribed" ELSE "no subscriptions")
    /\ pc' = [pc EXCEPT ![t] = "returned"]
    /\ UNCHANGED harnessFrame

CallUnsubscribeEnter(t, c, category) ==
    /\ pc[t] = "api"
    /\ unsubscribe_enter(t, c, category)
    /\ call' = [call EXCEPT ![t] = Called("unsubscribe", c, category)]
    /\ pc' = [pc EXCEPT ![t] = "unsub_reverse"]
    /\ UNCHANGED <<last_call, harnessFrame>>

CallUnsubscribeFinish(t) ==
    /\ pc[t] = "unsub_reverse"
    /\ unsubscribe_finish(call[t].conn, call[t].category)
    /\ Returned(t, TRUE, "unsubscribed")
    /\ pc' = [pc EXCEPT ![t] = "returned"]
    /\ UNCHANGED harnessFrame

CallRemoveAbsentRaises(t, c) ==
    /\ pc[t] = "api"
    /\ remove_client_absent(c)
    /\ ReturnedAtOnce(t, Called("remove_client", c, ""), FALSE, "KeyError")
    /\ pc' = [pc EXCEPT ![t] = "returned"]
    /\ UNCHANGED harnessFrame
CallRemoveAbsent(t, c) ==
    /\ pc[t] = "api"
    /\ remove_client_absent(c)
    /\ ReturnedAtOnce(t, Called("remove_client", c, ""), TRUE, "")
    /\ pc' = [pc EXCEPT ![t] = "returned"]
    /\ UNCHANGED harnessFrame

CallRemoveEnter(t, c) ==
    /\ pc[t] = "api"
    /\ remove_client_enter(t, c)
    /\ call' = [call EXCEPT ![t] = Called("remove_client", c, "")]
    /\ pc' = [pc EXCEPT ![t] = "rm_delete"]
    /\ UNCHANGED <<last_call, harnessFrame>>

CallRemoveFinish(t) ==
    /\ pc[t] = "rm_delete"
    /\ remove_client_finish(call[t].conn)
    /\ Returned(t, TRUE, "")
    /\ pc' = [pc EXCEPT ![t] = "returned"]
    /\ UNCHANGED harnessFrame

\* the caller takes the result and is ready for its next call
CallReturn(t) ==
    /\ pc[t] = "returned"
    /\ call' = [call EXCEPT ![t] = NoCall]
    /\ pc' = [pc EXCEPT ![t] = "api"]
    /\ UNCHANGED <<regVars, last_call, harnessFrame>>

\* ---------------------------------------------------------------- NewsServer
NoReq == [type |-> "", category |-> "", id |-> 0]
UNKNOWN_TYPE == "PING"
\* two lines that are no frame: text that is not JSON, and JSON that is not an
\* object; as the other lines, they are named by the field "type"
NOT_JSON == "{bad"
NON_OBJECT == "[1]"
Requests ==
    {[type |-> t, category |-> k, id |-> 0] :
        t \in {SUBSCRIBE, UNSUBSCRIBE, PUBLISH}, k \in PeerCategories}
    \cup {[type |-> t, category |-> "", id |-> 0] :
        t \in {LIST_CATEGORIES, DISCONNECT, HISTORY, UNKNOWN_TYPE}}
\* the lines a peer of SpecLines sends: the two that are no frame, and two
\* frames
LineRequests ==
    {[type |-> t, category |-> "", id |-> 0] : t \in {NOT_JSON, NON_OBJECT, UNKNOWN_TYPE}}
    \cup {[type |-> SUBSCRIBE, category |-> "Esportes", id |-> 0]}

\* the frames the peers of SpecLive send: c1 is a publisher, c2 a subscriber
LiveRequests(w) ==
    {[type |-> IF w = "c1" THEN PUBLISH ELSE SUBSCRIBE,
      category |-> "Esportes", id |-> 0],
     [type |-> DISCONNECT, category |-> "", id |-> 0]}

\* Message.parse: json.loads returns whatever the text denotes; only a
\* JSONDecodeError is turned into an Error message
parse(r) == IF r.type = NOT_JSON THEN [r EXCEPT !.type = ERROR] ELSE r
\* _process_message: msg.get(...) works on a dict and raises on anything else
IsObject(r) == r.type # NON_OBJECT

Frame(to, type, text, id, ok) ==
    [to |-> to, type |-> type, text |-> text, id |-> id, ok |-> ok]

\* outcome of sendall on a connection: it raises on a socket the server has
\* closed, may or may not raise once the peer is gone (closed or reset),
\* succeeds otherwise
SendOutcome(c) ==
    IF sock_closed[c] THEN {FALSE}
    ELSE IF peer_gone[c] THEN {TRUE, FALSE}
    ELSE {TRUE}

\* _send_to_client: a failure is swallowed
Sent(w, frames) == out' = [out EXCEPT ![w] = @ \o frames]
Reply(w, type, text, id) ==
    \E ok \in SendOutcome(w) : Sent(w, <<Frame(w, type, text, id, ok)>>)

\* _process_message: category = data.get("category", "").lower()
Category(w) == Lower(req[w].category)
Bump(n) == Min(n + 1, MaxTeardownRuns)

bcVars == <<subscribers, todo, failed_clients>>
netVars == <<sock_closed, peer_gone>>
\* what a step that only moves the worker and sends frames leaves alone
replyFrame == <<storeVars, regVars, callVars, persistVars, sideVars, clients, req, bcVars, netVars,
                teardown_runs>>
\* what a registry step of a worker leaves alone
regFrame == <<storeVars, callVars, persistVars, sideVars, clients, req, bcVars, netVars>>

\* _accept_connections: one accepted connection, its worker thread started
Accept(c) ==
    /\ pc[c] = "unborn"
    /\ clients' = clients \cup {c}
    /\ pc' = [pc EXCEPT ![c] = "welcome"]
    /\ UNCHANGED <<storeVars, regVars, callVars, persistVars, sideVars, req, out, bcVars, netVars,
                   teardown_runs>>

\* the peer closes or resets its end
PeerClose(c) ==
    /\ pc[c] \notin {"unborn", "closed"}
    /\ ~peer_gone[c]
    /\ peer_gone' = [peer_gone EXCEPT ![c] = TRUE]
    /\ UNCHANGED <<storeVars, regVars, callVars, persistVars, sideVars, clients, pc, req, out, bcVars,
                   sock_closed, teardown_runs>>

\* _handle_client: the welcome message
Welcome(w) ==
    /\ pc[w] = "welcome"
    /\ Reply(w, SUCCESS, "welcome", 0)
    /\ pc' = [pc EXCEPT ![w] = "done"]
    /\ UNCHANGED replyFrame

\* _handle_client: back to recv after the frame was processed
LoopNext(w) ==
    /\ pc[w] = "done"
    /\ running
    /\ pc' = [pc EXCEPT ![w] = "recv"]
    /\ req' = [req EXCEPT ![w] = NoReq]
    /\ out' = [out EXCEPT ![w] = <<>>]
    /\ subscribers' = [subscribers EXCEPT ![w] = {}]
    /\ UNCHANGED <<storeVars, regVars, callVars, persistVars, sideVars, clients, todo, failed_clients,
                   netVars, teardown_runs>>

\* Publish frames not yet stored; together with the stored ones they stay
\* within MaxPublish
PublishesInFlight ==
    Cardinality({w \in Conns : pc[w] = "dispatch" /\ req[w].type = PUBLISH})

\* _handle_client: recv returns one frame (also one the peer sent before it
\* went away)
RecvFrame(w, r) ==
    /\ pc[w] = "recv"
    /\ ~sock_closed[w]
    /\ r.type = PUBLISH => clock + PublishesInFlight < MaxPublish
    /\ req' = [req EXCEPT ![w] = r]
    /\ pc' = [pc EXCEPT ![w] = "dispatch"]
    /\ UNCHANGED <<storeVars, regVars, callVars, persistVars, sideVars, clients, out, bcVars, netVars,
                   teardown_runs>>

\* _handle_client: the next line of the data already read, taken from the
\* buffer after a DISCONNECT in the same data closed the socket
RecvBuffered(w, r) ==
    /\ pc[w] = "recv"
    /\ sock_closed[w]
    /\ r.type = PUBLISH => clock + PublishesInFlight < MaxPublish
    /\ req' = [req EXCEPT ![w] = r]
    /\ pc' = [pc EXCEPT ![w] = "dispatch"]
    /\ UNCHANGED <<storeVars, regVars, callVars, persistVars, sideVars, clients, out, bcVars, netVars,
                   teardown_runs>>

\* _handle_client: recv returns no data or raises; the finally block runs
RecvFail(w) ==
    /\ pc[w] = "recv"
    /\ sock_closed[w] \/ peer_gone[w]
    /\ pc' = [pc EXCEPT ![w] = "td_remove"]
    /\ UNCHANGED <<out, replyFrame>>

\* SUBSCRIBE, subscribe(): the category is not configured
SubscribeUnknown(w) ==
    /\ pc[w] = "dispatch" /\ req[w].type = SUBSCRIBE
    /\ Category(w) \notin available_categories
    /\ Reply(w, ERROR, "category does not exist", 0)
    /\ pc' = [pc EXCEPT ![w] = "done"]
    /\ UNCHANGED replyFrame

\* SUBSCRIBE, subscribe(): the lock is taken, the forward map updated
SubscribeEnter(w) ==
    /\ pc[w] = "dispatch" /\ req[w].type = SUBSCRIBE
    /\ subscribe_enter(w, w, Category(w))
    /\ pc' = [pc EXCEPT ![w] = "sub_reverse"]
    /\ UNCHANGED <<out, teardown_runs, regFrame>>

\* SUBSCRIBE, subscribe(): the reverse map, the lock released, then the reply
SubscribeFinish(w) ==
    /\ pc[w] = "sub_reverse"
    /\ subscribe_finish(w, Category(w))
    /\ IF AlreadySubscribed(w, Category(w))
       THEN Reply(w, ERROR, "already subscribed", 0)
       ELSE Reply(w, SUCCESS, "subscribed", 0)
    /\ pc' = [pc EXCEPT ![w] = "done"]
    /\ UNCHANGED <<teardown_runs, regFrame>>

\* UNSUBSCRIBE, unsubscribe(): one of the early returns, then the Error reply
UnsubscribeRefusedSilent(w) ==
    /\ pc[w] = "dispatch" /\ req[w].type = UNSUBSCRIBE
    /\ unsubscribe_refused(w, Category(w))
    /\ pc' = [pc EXCEPT ![w] = "done"]
    /\ UNCHANGED <<out, teardown_runs, regFrame>>
UnsubscribeRefused(w) ==
    /\ pc[w] = "dispatch" /\ req[w].type = UNSUBSCRIBE
    /\ unsubscribe_refused(w, Category(w))
    /\ Reply(w, ERROR, IF Known(w) THEN "not subscribed" ELSE "no subscriptions", 0)
    /\ pc' = [pc EXCEPT ![w] = "done"]
    /\ UNCHANGED <<teardown_runs, regFrame>>

\* UNSUBSCRIBE, unsubscribe(): the lock is taken, the forward map updated
UnsubscribeEnter(w) ==
    /\ pc[w] = "dispatch" /\ req[w].type = UNSUBSCRIBE
    /\ unsubscribe_enter(w, w, Category(w))
    /\ pc' = [pc EXCEPT ![w] = "unsub_reverse"]
    /\ UNCHANGED <<out, teardown_runs, regFrame>>

\* UNSUBSCRIBE, unsubscribe(): the reverse map, the lock released, the reply
UnsubscribeFinish(w) ==
    /\ pc[w] = "unsub_reverse"
    /\ unsubscribe_finish(w, Category(w))
    /\ Reply(w, SUCCESS, "unsubscribed", 0)
    /\ pc' = [pc EXCEPT ![w] = "done"]
    /\ UNCHANGED <<teardown_runs, regFrame>>

\* LIST_CATEGORIES: the list, then the summary when there are subscriptions
ListCategories(w) ==
    /\ pc[w] = "dispatch" /\ req[w].type = LIST_CATEGORIES
    /\ reg_lock = NoThread
    /\ \E ok1, ok2 \in SendOutcome(w) :
          Sent(w, <<Frame(w, CATEGORIES_LIST, "categories", 0, ok1)>> \o
                  (IF get_client_subscriptions(w) # {}
                   THEN <<Frame(w, SUCCESS, "your subscriptions", 0, ok2)>>
                   ELSE <<>>))
    /\ pc' = [pc EXCEPT ![w] = "done"]
    /\ UNCHANGED replyFrame

\* DISCONNECT: acknowledge, close the socket
Disconnect(w) ==
    /\ pc[w] = "dispatch" /\ req[w].type = DISCONNECT
    /\ Reply(w, SUCCESS, "disconnected", 0)
    /\ sock_closed' = [sock_closed EXCEPT ![w] = TRUE]
    /\ pc' = [pc EXCEPT ![w] = "done"]
    /\ UNCHANGED <<storeVars, regVars, callVars, persistVars, sideVars, clients, req, bcVars, peer_gone,
                   teardown_runs>>

\* the else branch of _process_message: any other type, HISTORY included
UnrecognizedUnnamed(w) ==
    /\ pc[w] = "dispatch"
    /\ IsObject(req[w])
    /\ parse(req[w]).type
          \notin {SUBSCRIBE, UNSUBSCRIBE, LIST_CATEGORIES, PUBLISH, DISCONNECT}
    /\ Reply(w, ERROR, "unrecognized", 0)
    /\ pc' = [pc EXCEPT ![w] = "done"]
    /\ UNCHANGED replyFrame
Unrecognized(w) ==
    /\ pc[w] = "dispatch"
    /\ IsObject(req[w])
    /\ parse(req[w]).type
          \notin {SUBSCRIBE, UNSUBSCRIBE, LIST_CATEGORIES, PUBLISH, DISCONNECT}
    /\ Reply(w, ERROR, parse(req[w]).type, 0)
    /\ pc' = [pc EXCEPT ![w] = "done"]
    /\ UNCHANGED replyFrame

\* _process_message raises (msg.get on a value that is no dict); the handler
\* of _handle_client catches it and the finally block runs
ProcessFault(w) ==
    /\ pc[w] = "dispatch"
    /\ ~IsObject(req[w])
    /\ pc' = [pc EXCEPT ![w] = "td_remove"]
    /\ UNCHANGED <<out, replyFrame>>

\* PUBLISH: the category is not configured
PublishInvalidStores(w) ==
    /\ pc[w] = "dispatch" /\ req[w].type = PUBLISH
    /\ Category(w) \notin available_categories
    /\ add_news(Category(w))
    /\ Reply(w, ERROR, "invalid category", 0)
    /\ pc' = [pc EXCEPT ![w] = "done"]
    /\ UNCHANGED <<last_op, regVars, callVars, disk_ok, sideVars, clients, req,
                   bcVars, netVars, teardown_runs>>
PublishInvalid(w) ==
    /\ pc[w] = "dispatch" /\ req[w].type = PUBLISH
    /\ Category(w) \notin available_categories
    /\ Reply(w, ERROR, "invalid category", 0)
    /\ pc' = [pc EXCEPT ![w] = "done"]
    /\ UNCHANGED replyFrame

\* a Publish that goes on to the broadcast without storing the item
PublishStoreSkipped(w) ==
    /\ pc[w] = "dispatch" /\ req[w].type = PUBLISH
    /\ Category(w) \in available_categories
    /\ pc' = [pc EXCEPT ![w] = "bc_snapshot"]
    /\ UNCHANGED <<storeVars, regVars, callVars, persistVars, sideVars, clients, req,
                   out, bcVars, netVars, teardown_runs>>
\* PUBLISH: news_storage.add_news, inside the store's lock
PublishStore(w) ==
    /\ pc[w] = "dispatch" /\ req[w].type = PUBLISH
    /\ Category(w) \in available_categories
    /\ add_news(Category(w))
    /\ req' = [req EXCEPT ![w].id = NewNews(news_list, Category(w), clock + 1).id]
    /\ pc' = [pc EXCEPT ![w] = "bc_snapshot"]
    /\ UNCHANGED <<last_op, regVars, callVars, disk_ok, sideVars, clients, out,
                   bcVars, netVars, teardown_runs>>

\* _process_message / _broadcast_news: the worker's position after a step of
\* the broadcast: the fan-out loop, then the cleanup loop, then the reply
AfterFanoutAckEarly(remaining, failed) ==
    IF failed # <<>> THEN "bc_remove" ELSE "pub_reply"
AfterFanout(remaining, failed) ==
    IF remaining # {} THEN "bc_send"
    ELSE IF failed # <<>> THEN "bc_remove" ELSE "pub_reply"

\* _broadcast_news: what is left of the loop over subscribers after the send
\* to c (an exception is caught inside the loop body)
RemainingAbortOnFailure(remaining, c, ok) ==
    IF ok THEN remaining \ {c} ELSE {}
RemainingKeepsVisited(remaining, c, ok) == remaining
RemainingAfterSend(remaining, c, ok) == remaining \ {c}

\* a broadcast that keeps the registry lock while it sends
BroadcastSnapshotHoldsLock(w) ==
    /\ pc[w] = "bc_snapshot"
    /\ reg_lock = NoThread
    /\ reg_lock' = w
    /\ subscribers' = [subscribers EXCEPT ![w] = get_subscribers(Category(w))]
    /\ todo' = [todo EXCEPT ![w] = get_subscribers(Category(w))]
    /\ pc' = [pc EXCEPT ![w] = AfterFanout(get_subscribers(Category(w)), <<>>)]
    /\ UNCHANGED <<storeVars, subscriptions, client_subscriptions, callVars, persistVars,
                   sideVars, clients, req, out, failed_clients, netVars, teardown_runs>>
\* _broadcast_news: the snapshot, copied under the registry lock
BroadcastSnapshot(w) ==
    /\ pc[w] = "bc_snapshot"
    /\ reg_lock = NoThread
    /\ subscribers' = [subscribers EXCEPT ![w] = get_subscribers(Category(w))]
    /\ todo' = [todo EXCEPT ![w] = get_subscribers(Category(w))]
    /\ pc' = [pc EXCEPT ![w] = AfterFanout(get_subscribers(Category(w)), <<>>)]
    /\ UNCHANGED <<storeVars, regVars, callVars, persistVars, sideVars, clients, req, out, failed_clients,
                   netVars, teardown_runs>>

\* _broadcast_news: one iteration of the fan-out loop, in any order
BroadcastSend(w, c) ==
    /\ pc[w] = "bc_send"
    /\ c \in todo[w]
    /\ ~stalled[c]
    /\ \E ok \in SendOutcome(c) :
          /\ Sent(w, <<Frame(c, NEWS_UPDATE, Category(w), 0, ok)>>)
          /\ failed_clients' = [failed_clients EXCEPT ![w] =
                                   IF ok THEN @ ELSE Append(@, c)]
          /\ todo' = [todo EXCEPT ![w] = RemainingAfterSend(@, c, ok)]
    /\ pc' = [pc EXCEPT ![w] = AfterFanout(todo'[w], failed_clients'[w])]
    /\ UNCHANGED <<storeVars, regVars, callVars, persistVars, sideVars, clients, req, subscribers,
                   netVars, teardown_runs>>

\* _broadcast_news: sendall on a blocking socket whose peer has stopped
\* reading: the call does not return
BroadcastBlock(w, c) ==
    /\ pc[w] = "bc_send"
    /\ c \in todo[w]
    /\ stalled[c]
    /\ sending' = [sending EXCEPT ![w] = c]
    /\ pc' = [pc EXCEPT ![w] = "bc_blocked"]
    /\ UNCHANGED <<storeVars, regVars, callVars, persistVars, stalled, lockVars,
                   wireVars, stopVars, rx, codec, srvVars>>

\* the peer reads again: sendall goes on, and the loop body with it
BroadcastUnblock(w) ==
    /\ pc[w] = "bc_blocked"
    /\ ~stalled[sending[w]]
    /\ sending' = [sending EXCEPT ![w] = NoThread]
    /\ pc' = [pc EXCEPT ![w] = "bc_send"]
    /\ UNCHANGED <<storeVars, regVars, callVars, persistVars, stalled, lockVars,
                   wireVars, stopVars, rx, codec, srvVars>>

\* a peer stops reading until the buffers between the server and it are full
PeerStall(c) ==
    /\ pc[c] \notin {"unborn", "closed"}
    /\ ~stalled[c]
    /\ stalled' = [stalled EXCEPT ![c] = TRUE]
    /\ UNCHANGED <<storeVars, regVars, callVars, persistVars, sending, lockVars,
                   wireVars, stopVars, rx, codec, pc, srvVars>>

\* a stalled peer reads again
PeerResume(c) ==
    /\ stalled[c]
    /\ stalled' = [stalled EXCEPT ![c] = FALSE]
    /\ UNCHANGED <<storeVars, regVars, callVars, persistVars, sending, lockVars,
                   wireVars, stopVars, rx, codec, pc, srvVars>>

\* _broadcast_news: remove_client for the first client still in failed_clients
CleanupRemove(w) ==
    /\ pc[w] = "bc_remove"
    /\ \/ /\ remove_client_enter(w, Head(failed_clients[w]))
          /\ pc' = [pc EXCEPT ![w] = "bc_delete"]
       \/ /\ remove_client_absent(Head(failed_clients[w]))
          /\ pc' = [pc EXCEPT ![w] = "bc_discard"]
    /\ teardown_runs' = [teardown_runs EXCEPT ![Head(failed_clients[w])] = Bump(@)]
    /\ UNCHANGED <<out, regFrame>>

CleanupDelete(w) ==
    /\ pc[w] = "bc_delete"
    /\ remove_client_finish(Head(failed_clients[w]))
    /\ pc' = [pc EXCEPT ![w] = "bc_discard"]
    /\ UNCHANGED <<out, teardown_runs, regFrame>>

\* _broadcast_news: self.clients.discard for that client; on to the next one
CleanupDiscard(w) ==
    /\ pc[w] = "bc_discard"
    /\ clients' = clients \ {Head(failed_clients[w])}
    /\ failed_clients' = [failed_clients EXCEPT ![w] = Tail(@)]
    /\ pc' = [pc EXCEPT ![w] = AfterFanout({}, Tail(failed_clients[w]))]
    /\ UNCHANGED <<storeVars, regVars, callVars, persistVars, sideVars, req, out, subscribers, todo,
                   netVars, teardown_runs>>

\* PUBLISH: the Success reply, after _broadcast_news returned
PublishReply(w) ==
    /\ pc[w] = "pub_reply"
    /\ Reply(w, SUCCESS, "published", req[w].id)
    /\ pc' = [pc EXCEPT ![w] = "done"]
    /\ UNCHANGED replyFrame

\* _disconnect_client: remove_client for the worker's own connection
TeardownRemove(w) ==
    /\ pc[w] = "td_remove"
    /\ \/ /\ remove_client_enter(w, w)
          /\ pc' = [pc EXCEPT ![w] = "td_delete"]
       \/ /\ remove_client_absent(w)
          /\ pc' = [pc EXCEPT ![w] = "td_discard"]
    /\ teardown_runs' = [teardown_runs EXCEPT ![w] = Bump(@)]
    /\ UNCHANGED <<out, regFrame>>

TeardownDelete(w) ==
    /\ pc[w] = "td_delete"
    /\ remove_client_finish(w)
    /\ pc' = [pc EXCEPT ![w] = "td_discard"]
    /\ UNCHANGED <<out, teardown_runs, regFrame>>

\* _disconnect_client: self.clients.discard
TeardownDiscardKeeps(w) ==
    /\ pc[w] = "td_discard"
    /\ pc' = [pc EXCEPT ![w] = "td_close"]
    /\ UNCHANGED <<storeVars, regVars, callVars, persistVars, sideVars, clients, req, out,
                   bcVars, netVars, teardown_runs>>
TeardownDiscard(w) ==
    /\ pc[w] = "td_discard"
    /\ clients' = clients \ {w}
    /\ pc' = [pc EXCEPT ![w] = "td_close"]
    /\ UNCHANGED <<storeVars, regVars, callVars, persistVars, sideVars, req, out, bcVars, netVars,
                   teardown_runs>>

\* _disconnect_client: client_socket.close(); the worker thread ends
TeardownClose(w) ==
    /\ pc[w] = "td_close"
    /\ sock_closed' = [sock_closed EXCEPT ![w] = TRUE]
    /\ pc' = [pc EXCEPT ![w] = "closed"]
    /\ UNCHANGED <<storeVars, regVars, callVars, persistVars, sideVars, clients, req, out, bcVars,
                   peer_gone, teardown_runs>>

\* ------------------------------------------------------------ the lifecycle
\* what a step of stop() or of the accept thread leaves alone
lifeFrame == <<storeVars, regVars, callVars, persistVars, stalled, sending,
               lockVars, wireVars, rx, codec, req, out, bcVars, peer_gone,
               teardown_runs>>

\* stop(): self.running = False
StopBegin ==
    /\ stopping = "idle"
    /\ running' = FALSE
    /\ stopping' = "closing"
    /\ UNCHANGED <<lifeFrame, acceptor, clients, sock_closed, pc>>

\* stop(): under clients_lock, close every socket of self.clients and clear
\* the set
StopClose ==
    /\ stopping = "closing"
    /\ sock_closed' = [c \in Conns |-> sock_closed[c] \/ c \in clients]
    /\ clients' = {}
    /\ stopping' = "server_close"
    /\ UNCHANGED <<lifeFrame, running, acceptor, pc>>

\* stop(): the listening socket is closed
StopServer ==
    /\ stopping = "server_close"
    /\ stopping' = "stopped"
    /\ UNCHANGED <<lifeFrame, running, acceptor, clients, sock_closed, pc>>

\* _accept_connections: the test of the while loop
AcceptLoop ==
    /\ acceptor.at = "loop"
    /\ acceptor' = [acceptor EXCEPT !.at = IF running THEN "accept" ELSE "ended"]
    /\ UNCHANGED <<lifeFrame, running, stopping, clients, sock_closed, pc>>

\* _accept_connections: accept() returns the socket of a new connection; a
\* call that began before stop() can still return one afterwards
AcceptReturn(c) ==
    /\ acceptor.at = "accept"
    /\ pc[c] = "unborn"
    /\ acceptor' = [acceptor EXCEPT !.at = "add", !.conn = c]
    /\ UNCHANGED <<lifeFrame, running, stopping, clients, sock_closed, pc>>

\* _accept_connections: accept() raises on the closed listening socket; the
\* except clause, then the test of the loop
AcceptError ==
    /\ acceptor.at = "accept"
    /\ stopping = "stopped"
    /\ acceptor' = [acceptor EXCEPT !.at = "loop"]
    /\ UNCHANGED <<lifeFrame, running, stopping, clients, sock_closed, pc>>

\* _accept_connections: self.clients.add under clients_lock
AcceptAdd ==
    /\ acceptor.at = "add"
    /\ clients' = clients \cup {acceptor.conn}
    /\ acceptor' = [acceptor EXCEPT
                       !.at = "spawn",
                       !.after_clear = IF stopping \in {"server_close", "stopped"}
                                       THEN @ \cup {acceptor.conn} ELSE @]
    /\ UNCHANGED <<lifeFrame, running, stopping, sock_closed, pc>>

\* _accept_connections: the worker thread of the connection is started
AcceptSpawn ==
    /\ acceptor.at = "spawn"
    /\ pc' = [pc EXCEPT ![acceptor.conn] = "welcome"]
    /\ acceptor' = [acceptor EXCEPT !.at = "loop", !.conn = NoThread]
    /\ UNCHANGED <<lifeFrame, running, stopping, clients, sock_closed>>

\* _handle_client: the while loop ends without running the finally block
LoopExitNoTeardown(w) ==
    /\ pc[w] = "done"
    /\ ~running
    /\ pc' = [pc EXCEPT ![w] = "closed"]
    /\ UNCHANGED <<out, replyFrame>>
\* _handle_client: self.running is false at the test of the while loop; the
\* finally block runs
LoopExit(w) ==
    /\ pc[w] = "done"
    /\ ~running
    /\ pc' = [pc EXCEPT ![w] = "td_remove"]
    /\ UNCHANGED <<out, replyFrame>>

\* _handle_client: the for loop goes on to the next line of the data read
\* before stop(); the while loop is not tested between two lines (while
\* running, this is LoopNext and then RecvFrame)
LoopBuffered(w, r) ==
    /\ pc[w] = "done"
    /\ ~running
    /\ r.type = PUBLISH => clock + PublishesInFlight < MaxPublish
    /\ req' = [req EXCEPT ![w] = r]
    /\ out' = [out EXCEPT ![w] = <<>>]
    /\ subscribers' = [subscribers EXCEPT ![w] = {}]
    /\ pc' = [pc EXCEPT ![w] = "dispatch"]
    /\ UNCHANGED <<storeVars, regVars, callVars, persistVars, sideVars, clients, todo,
                   failed_clients, netVars, teardown_runs>>

\* ------------------------------------------------------------ specifications
InitStore ==
    /\ news_list = <<>>
    /\ clock = 0
    /\ returned_ids = <<>>
    /\ last_op = NoOp

InitRegistry ==
    /\ subscriptions = [k \in available_categories |-> {}]
    /\ client_subscriptions = [c \in {} |-> {}]
    /\ reg_lock = NoThread
    /\ call = [t \in Conns |-> NoCall]
    /\ last_call = NoLast

InitServer ==
    /\ clients = {}
    /\ req = [c \in Conns |-> NoReq]
    /\ out = [c \in Conns |-> <<>>]
    /\ subscribers = [c \in Conns |-> {}]
    /\ todo = [c \in Conns |-> {}]
    /\ failed_clients = [c \in Conns |-> <<>>]
    /\ sock_closed = [c \in Conns |-> FALSE]
    /\ peer_gone = [c \in Conns |-> FALSE]
    /\ teardown_runs = [c \in Conns |-> 0]
    /\ saved_file = FileOf(<<>>)
    /\ disk_ok = TRUE
    /\ stalled = [c \in Conns |-> FALSE]
    /\ sending = [c \in Conns |-> NoThread]
    /\ store_lock = NoThread
    /\ adding = [c \in Conns |-> [category |-> "", news |-> NoNews]]
    /\ built = <<>>
    /\ clients_lock = NoThread
    /\ steps = [t \in LockThreads |-> <<>>]
    /\ wire = <<>>
    /\ sent = [t \in Conns |-> 0]
    \* start() has set self.running, the accept thread waits in accept()
    /\ running = TRUE
    /\ stopping = "idle"
    /\ acceptor = [at |-> "accept", conn |-> NoThread, after_clear |-> {}]
    /\ rx = NoRx
    /\ codec = NoCodec

\* the server after NewsServer.__init__: nothing accepted yet
Init ==
    /\ InitStore /\ InitRegistry /\ InitServer
    /\ pc = [c \in Conns |-> "unborn"]

Next ==
    \/ \E c \in Conns : Accept(c)
    \/ \E c \in Conns : PeerClose(c)
    \/ \E w \in Conns : Welcome(w)
    \/ \E w \in Conns : LoopNext(w)
    \/ \E w \in Conns : \E r \in Requests : RecvFrame(w, r)
    \/ \E w \in Conns : RecvFail(w)
    \/ \E w \in Conns : SubscribeUnknown(w)
    \/ \E w \in Conns : SubscribeEnter(w)
    \/ \E w \in Conns : SubscribeFinish(w)
    \/ \E w \in Conns : UnsubscribeRefused(w)
    \/ \E w \in Conns : UnsubscribeEnter(w)
    \/ \E w \in Conns : UnsubscribeFinish(w)
    \/ \E w \in Conns : ListCategories(w)
    \/ \E w \in Conns : Disconnect(w)
    \/ \E w \in Conns : Unrecognized(w)
    \/ \E w \in Conns : PublishInvalid(w)
    \/ \E w \in Conns : PublishStore(w)
    \/ \E w \in Conns : BroadcastSnapshot(w)
    \/ \E w \in Conns : \E c \in Conns : BroadcastSend(w, c)
    \/ \E w \in Conns : CleanupRemove(w)
    \/ \E w \in Conns : CleanupDelete(w)
    \/ \E w \in Conns : CleanupDiscard(w)
    \/ \E w \in Conns : PublishReply(w)
    \/ \E w \in Conns : TeardownRemove(w)
    \/ \E w \in Conns : TeardownDelete(w)
    \/ \E w \in Conns : TeardownDiscard(w)
    \/ \E w \in Conns : TeardownClose(w)

Spec == Init /\ [][Next]_vars

\* the server fed lines that are no frames, among frames
NextLines ==
    \/ \E c \in Conns : Accept(c)
    \/ \E c \in Conns : PeerClose(c)
    \/ \E w \in Conns : Welcome(w)
    \/ \E w \in Conns : LoopNext(w)
    \/ \E w \in Conns : \E r \in LineRequests : RecvFrame(w, r)
    \/ \E w \in Conns : RecvFail(w)
    \/ \E w \in Conns : SubscribeEnter(w)
    \/ \E w \in Conns : SubscribeFinish(w)
    \/ \E w \in Conns : Unrecognized(w)
    \/ \E w \in Conns : ProcessFault(w)
    \/ \E w \in Conns : TeardownRemove(w)
    \/ \E w \in Conns : TeardownDelete(w)
    \/ \E w \in Conns : TeardownDiscard(w)
    \/ \E w \in Conns : TeardownClose(w)

SpecLines == Init /\ [][NextLines]_vars

\* the server with fair workers: the steps a worker takes on its own, without
\* waiting for its peer
Internal(w) ==
    \/ Welcome(w)
    \/ LoopNext(w)
    \/ SubscribeEnter(w)
    \/ SubscribeFinish(w)
    \/ Disconnect(w)
    \/ PublishStore(w)
    \/ BroadcastSnapshot(w)
    \/ \E c \in Conns : BroadcastSend(w, c)
    \/ CleanupRemove(w)
    \/ CleanupDelete(w)
    \/ CleanupDiscard(w)
    \/ PublishReply(w)
    \/ TeardownRemove(w)
    \/ TeardownDelete(w)
    \/ TeardownDiscard(w)
    \/ TeardownClose(w)

NextLive ==
    \/ \E c \in Conns : Accept(c)
    \/ \E c \in Conns : PeerClose(c)
    \/ \E w \in Conns : \E r \in LiveRequests(w) : RecvFrame(w, r)
    \/ \E w \in Conns : \E r \in LiveRequests(w) : RecvBuffered(w, r)
    \/ \E w \in Conns : RecvFail(w)
    \/ \E w \in Conns : Internal(w)

\* A worker thread that can run does run, and one that waits for the registry
\* lock gets it; of a peer that is gone, or after the socket was closed, only
\* finitely many lines are left to read, so the failing recv is reached.
Fairness ==
    \A w \in Conns : SF_vars(Internal(w)) /\ SF_vars(RecvFail(w))

SpecLive == Init /\ [][NextLive]_vars /\ Fairness

\* the server with stop(): the main thread stops it at any moment, the accept
\* thread takes its steps one by one, a publisher and a subscriber are served
NextStop ==
    \/ StopBegin
    \/ StopClose
    \/ StopServer
    \/ AcceptLoop
    \/ \E c \in Conns : AcceptReturn(c)
    \/ AcceptError
    \/ AcceptAdd
    \/ AcceptSpawn
    \/ \E c \in Conns : PeerClose(c)
    \/ \E w \in Conns : \E r \in LiveRequests(w) : RecvFrame(w, r)
    \/ \E w \in Conns : \E r \in LiveRequests(w) : RecvBuffered(w, r)
    \/ \E w \in Conns : RecvFail(w)
    \/ \E w \in Conns : Internal(w)
    \/ \E w \in Conns : LoopExit(w)
    \/ \E w \in Conns : \E r \in LiveRequests(w) : LoopBuffered(w, r)

SpecStop == Init /\ [][NextStop]_vars

\* a publisher and a subscriber whose peer may stop reading
StallRequests(w) ==
    {[type |-> IF w = "c1" THEN PUBLISH ELSE SUBSCRIBE,
      category |-> "Esportes", id |-> 0]}
StallInternal(w) ==
    \/ Welcome(w)
    \/ LoopNext(w)
    \/ SubscribeEnter(w)
    \/ SubscribeFinish(w)
    \/ PublishStore(w)
    \/ BroadcastSnapshot(w)
    \/ \E c \in Conns : BroadcastSend(w, c)
    \/ \E c \in Conns : BroadcastBlock(w, c)
    \/ BroadcastUnblock(w)
    \/ PublishReply(w)

NextStall ==
    \/ \E c \in Conns : Accept(c)
    \/ \E c \in Conns : PeerStall(c)
    \/ \E c \in Conns : PeerResume(c)
    \/ \E w \in Conns : \E r \in StallRequests(w) : RecvFrame(w, r)
    \/ \E w \in Conns : StallInternal(w)

\* the worker threads are fair as in SpecLive; a peer need not read again
SpecStall ==
    Init /\ [][NextStall]_vars /\ \A w \in Conns : SF_vars(StallInternal(w))

\* the codec alone
NextCodec ==
    \/ /\ codec.stage = "idle"
       /\ \E msg_type \in MessageTypes :
              \/ CodecCreate(msg_type, None)
              \/ \E n \in FieldCounts : \E names \in NameOrders(n) :
                     \E values \in [1..n -> FieldValues] :
                        CodecCreate(msg_type, Dict(Items(names, values)))
    \/ CodecParse

SpecCodec == Init /\ [][NextCodec]_vars

\* the read loop alone, fed a text in two reads
NextDecode ==
    \/ /\ rx.stage = "idle"
       /\ \E text \in Texts, cut \in 1..(2 * MaxChars) : RxStart(text, cut)
    \/ RxRead

SpecDecode == Init /\ [][NextDecode]_vars

\* the store called by concurrent threads, add_news step by step
InitAppend ==
    /\ InitStore /\ InitRegistry /\ InitServer
    /\ pc = [c \in Conns |-> "store_idle"]

NextAppend ==
    \/ \E t \in Conns : \E category \in StoreCategories : AddCall(t, category)
    \/ \E t \in Conns : AddLock(t)
    \/ \E t \in Conns : AddBuild(t)
    \/ \E t \in Conns : AddAppend(t)
    \/ \E t \in Conns : AddCut(t)
    \/ \E t \in Conns : AddOpen(t)
    \/ \E t \in Conns : AddDump(t)
    \/ \E t \in Conns : AddUnlock(t)

SpecAppend == InitAppend /\ [][NextAppend]_vars

\* the threads of the server, reduced to the locks they take
NextLocks ==
    \/ \E t \in Conns : \E path \in WorkerPaths : PathBegin(t, path)
    \/ PathBegin("accept", ClientsBlock)
    \/ PathBegin("main", ClientsBlock)
    \/ \E t \in LockThreads : LockAcquire(t)
    \/ \E t \in LockThreads : LockRelease(t)

SpecLocks == Init /\ [][NextLocks]_vars

\* two workers, each sending one frame to the same connection
NextWire == \E t \in Conns : \E n \in 1..FrameLen : SendPart(t, n)

SpecWire == Init /\ [][NextWire]_vars

\* the store alone, called directly
NextStore ==
    \/ \E category \in StoreCategories : StoreAdd(category)
    \/ \E news_ids \in SeqsUpTo(IdInputs, MaxIdsLen) : StoreRemove(news_ids)
    \/ StoreClear

SpecStore == Init /\ [][NextStore]_vars

\* the store on a disk that may fail
NextPersist ==
    \/ \E category \in StoreCategories : StoreAdd(category)
    \/ \E news_ids \in SeqsUpTo(IdInputs, 1) : StoreRemove(news_ids)
    \/ StoreClear
    \/ DiskBreaks
    \/ DiskRecovers

SpecPersist == Init /\ [][NextPersist]_vars

\* the store from its construction on: the startup load, appends, clears and
\* the two queries
InitHistory ==
    /\ news_list = <<>> /\ clock = 0 /\ returned_ids = <<>>
    /\ last_op = [NoOp EXCEPT !.op = "new"]
    /\ InitRegistry /\ InitServer
    /\ pc = [c \in Conns |-> "unborn"]

NextHistory ==
    \/ \E file \in PersistedFiles : StoreLoad(file)
    \/ StoreLoadEmpty
    \/ ~Constructing /\ \E category \in StoreCategories : StoreAdd(category)
    \/ ~Constructing /\ StoreClear
    \/ ~Constructing /\ \E category \in StoreCategories, limit \in Limits :
          StoreQueryByCategory(category, limit)
    \/ ~Constructing /\ \E limit \in Limits : StoreQueryAll(limit)

SpecHistory == InitHistory /\ [][NextHistory]_vars

\* the registry alone, called directly by concurrent threads
InitRegistryCalls ==
    /\ InitStore /\ InitRegistry /\ InitServer
    /\ pc = [c \in Conns |-> "api"]

NextRegistry ==
    \/ \E t \in Conns, c \in Conns, k \in InputCategories :
          CallSubscribeUnknown(t, c, k)
    \/ \E t \in Conns, c \in Conns, k \in InputCategories :
          CallSubscribeEnter(t, c, k)
    \/ \E t \in Conns : CallSubscribeFinish(t)
    \/ \E t \in Conns, c \in Conns, k \in InputCategories :
          CallUnsubscribeRefused(t, c, k)
    \/ \E t \in Conns, c \in Conns, k \in InputCategories :
          CallUnsubscribeEnter(t, c, k)
    \/ \E t \in Conns : CallUnsubscribeFinish(t)
    \/ \E t \in Conns, c \in Conns : CallRemoveAbsent(t, c)
    \/ \E t \in Conns, c \in Conns : CallRemoveEnter(t, c)
    \/ \E t \in Conns : CallRemoveFinish(t)
    \/ \E t \in Conns : CallReturn(t)

SpecRegistry == InitRegistryCalls /\ [][NextRegistry]_vars

\* ------------------------------------------------------------------- claims
StoredIds(list) == {list[i].id : i \in DOMAIN list}
RECURSIVE IsSubSeq(_, _)
IsSubSeq(a, b) ==
    IF a = <<>> THEN TRUE
    ELSE IF b = <<>> THEN FALSE
    ELSE IF Head(a) = Head(b) THEN IsSubSeq(Tail(a), Tail(b))
    ELSE IsSubSeq(a, Tail(b))

\* C1: whenever no thread is inside a critical section of the registry, a
\* connection is in the subscriber set of a category exactly when the category
\* is in the connection's category set.
C1_RegistryBidirectional ==
    reg_lock = NoThread =>
        \A c \in Conns, k \in available_categories :
            c \in get_subscribers(k) <=> k \in get_client_subscriptions(c)

\* two threads have completed calls, one of them a remove_client that ran
\* while subscriptions exist
C1_Witness ==
    /\ reg_lock = NoThread
    /\ \E t1, t2 \in Conns :
          /\ t1 # t2
          /\ pc[t1] = "returned" /\ call[t1].op = "remove_client"
          /\ pc[t2] = "returned" /\ call[t2].op = "subscribe" /\ call[t2].ok
    /\ \E c \in Conns : get_client_subscriptions(c) = available_categories

\* C2: the ids returned by add_news are strictly increasing in call order
\* (so pairwise distinct), whatever removals and clears come in between.
C2_MonotonicIds ==
    \A i, j \in DOMAIN returned_ids :
        i < j => returned_ids[i] < returned_ids[j]

\* C3: no two stored items have the same id, also after appends made while the
\* store is full.
C3_UniqueStoredIds ==
    \A i, j \in DOMAIN news_list :
        i # j => news_list[i].id # news_list[j].id

\* C9: not_found holds exactly the requested ids that no stored item had
\* immediately before the call.
C9_NotFoundExact ==
    last_op.op = "remove" =>
        Range(last_op.not_found) = Range(last_op.ids) \ StoredIds(last_op.before)

\* C10: remove_news_by_ids removes exactly the items whose id was requested,
\* keeps the others in their order, and counts the removed items.
C10_RemoveExact ==
    last_op.op = "remove" =>
        /\ IsSubSeq(news_list, last_op.before)
        /\ \A i \in DOMAIN last_op.before :
              last_op.before[i].id \notin Range(last_op.ids)
                  <=> last_op.before[i] \in Range(news_list)
        /\ last_op.removed_count =
              Cardinality({i \in DOMAIN last_op.before :
                              last_op.before[i].id \in Range(last_op.ids)})

\* a removal where one requested id exists and another does not, and an item
\* is kept
C10_Witness ==
    /\ last_op.op = "remove"
    /\ last_op.removed_count >= 1
    /\ Range(last_op.ids) \ StoredIds(last_op.before) # {}
    /\ Len(news_list) >= 1

\* the frames of a worker's current request that carry the published item
Updates(w) == {i \in DOMAIN out[w] : out[w][i].type = NEWS_UPDATE}
Attempted(w) == {out[w][i].to : i \in Updates(w)}
\* the positions of the publisher's Success in the frames of its request
Acks(w) ==
    {i \in DOMAIN out[w] :
        out[w][i].type = SUCCESS /\ out[w][i].text = "published"}
\* the worker is past the fan-out loop of the Publish it is processing
FanoutComplete(w) ==
    \/ pc[w] \in {"bc_remove", "bc_delete", "bc_discard", "pub_reply"}
    \/ pc[w] = "done" /\ req[w].type = PUBLISH /\ req[w].id > 0
\* the worker is past the whole of _broadcast_news
BroadcastReturned(w) ==
    \/ pc[w] = "pub_reply"
    \/ pc[w] = "done" /\ req[w].type = PUBLISH /\ req[w].id > 0

\* C4: the publisher's Success is sent only after the NewsUpdate was attempted
\* to every connection of the snapshot, and no NewsUpdate of that publish is
\* sent after it.
C4_AckAfterFanout ==
    \A w \in Conns : \A a \in Acks(w) :
        /\ todo[w] = {}
        /\ \A c \in subscribers[w] : \E i \in Updates(w) : i < a /\ out[w][i].to = c
        /\ \A i \in Updates(w) : i < a

\* a publish to a category with two subscribers has been acknowledged
C4_Witness ==
    \E w \in Conns : Acks(w) # {} /\ subscribers[w] = Conns

\* C5: a failed send never ends the fan-out: the connections of the snapshot
\* that were not attempted are exactly those still to be visited, and none is
\* left when the loop is over.
C5_FailureIsolation ==
    \A w \in Conns :
        /\ pc[w] = "bc_send" \/ FanoutComplete(w)
              => Attempted(w) = subscribers[w] \ todo[w]
        /\ FanoutComplete(w) => Attempted(w) = subscribers[w]

\* a fan-out is over in which a send failed and a later send succeeded
C5_Witness ==
    \E w \in Conns :
        /\ FanoutComplete(w)
        /\ \E i, j \in Updates(w) : i < j /\ ~out[w][i].ok /\ out[w][j].ok

\* C6: the teardown of a connection is executed exactly once, whichever paths
\* trigger it.
C6_TeardownOnce ==
    \A c \in Conns : teardown_runs[c] <= 1

\* C7: once _broadcast_news has returned, a connection whose send failed is in
\* no subscriber set, has no reverse entry, is not in the live-connection set
\* and has its transport closed.
C7_FailedTornDown ==
    \A w \in Conns :
        BroadcastReturned(w) =>
            \A i \in Updates(w) :
                ~out[w][i].ok =>
                    /\ \A k \in available_categories :
                          out[w][i].to \notin get_subscribers(k)
                    /\ ~Known(out[w][i].to)
                    /\ out[w][i].to \notin clients
                    /\ sock_closed[out[w][i].to]

\* C8: a History request is answered with a NewsHistory frame to the requester
\* and never with an Error.
C8_HistoryAnswered ==
    \A w \in Conns :
        pc[w] = "done" /\ req[w].type = HISTORY =>
            /\ \E i \in DOMAIN out[w] :
                  out[w][i].type = NEWS_HISTORY /\ out[w][i].to = w
            /\ \A i \in DOMAIN out[w] : out[w][i].type # ERROR

\* C11: after every completed store operation, the startup load included, the
\* store holds at most MAX_NEWS_HISTORY items.
C11_SizeWithinCap ==
    ~Constructing => Len(news_list) <= MAX_NEWS_HISTORY

\* C12: an append to a store that holds MAX_NEWS_HISTORY items leaves exactly
\* that many: the oldest item is gone, the others keep their order and the new
\* item is last.
C12_EvictionAtCap ==
    last_op.op = "add" /\ Len(last_op.before) = MAX_NEWS_HISTORY =>
        /\ Len(news_list) = MAX_NEWS_HISTORY
        /\ news_list[Len(news_list)] = last_op.news
        /\ \A i \in 1..(MAX_NEWS_HISTORY - 1) : news_list[i] = last_op.before[i + 1]

\* an append was made to a full store
C12_Witness ==
    /\ last_op.op = "add"
    /\ Len(last_op.before) = MAX_NEWS_HISTORY
    /\ last_op.news \notin Range(last_op.before)

\* the stored items of a category, in stored order
Matching(list, category) ==
    SelectSeq(list, LAMBDA n : n.category = Lower(category))
\* the last min(limit, Len(list)) items of a list, in the order of the list
ExpectedLast(list, limit) ==
    LET m == Len(list)
        k == Min(limit, m)
    IN  [i \in 1..k |-> list[m - k + i]]

\* C13: for a limit >= 1, get_news_by_category returns the last
\* min(limit, m) of the m stored items of the category and get_all_news the
\* last min(limit, n) of the n stored items, oldest first.
C13_QueryLastN ==
    /\ last_op.op = "query_category" /\ last_op.limit >= 1 =>
          last_op.result =
              ExpectedLast(Matching(last_op.before, last_op.category), last_op.limit)
    /\ last_op.op = "query_all" /\ last_op.limit >= 1 =>
          last_op.result = ExpectedLast(last_op.before, last_op.limit)

\* a query by a category given in another case cut the matching items down to
\* the limit
C13_Witness ==
    /\ last_op.op = "query_category"
    /\ last_op.category # Lower(last_op.category)
    /\ Len(last_op.result) = last_op.limit
    /\ last_op.limit < Len(Matching(last_op.before, last_op.category))

\* ------------------------------------------- contracts of the registry calls
\* this step is the return of a call of thread t to op
Returns(t, op) ==
    pc[t] # "returned" /\ pc'[t] = "returned" /\ call'[t].op = op
\* the two maps when the call that returns in this step began, and the call
\* that was completed just before it began
SubsBefore(t) == IF pc[t] = "api" THEN subscriptions ELSE call[t].subs0
CsubsBefore(t) == IF pc[t] = "api" THEN client_subscriptions ELSE call[t].csubs0
PrecededBy(t) == IF pc[t] = "api" THEN last_call ELSE call[t].after
\* the category set of a connection in a reverse map
CategoriesOf(csubs, c) == IF c \in DOMAIN csubs THEN csubs[c] ELSE {}
\* the call of t has just returned: nothing has run since
JustReturned(t) == pc[t] = "returned" /\ last_call = Summary(call[t])
Subscribed(c) == get_client_subscriptions(c) # {}

\* C14: subscribe with a category that is not configured fails with "unknown
\* category" and leaves both maps as they were: no key for the category, no
\* reverse entry for the connection.
C14_UnknownCategoryRefused ==
    [][\A t \in Conns :
          Returns(t, "subscribe")
          /\ Lower(call'[t].category) \notin available_categories
          => /\ ~call'[t].ok /\ call'[t].message = "unknown category"
             /\ subscriptions' = SubsBefore(t)
             /\ client_subscriptions' = CsubsBefore(t)
             /\ DOMAIN subscriptions' = available_categories]_vars

\* a connection without subscriptions was refused an unknown category while
\* another connection holds a subscription
C14_Witness ==
    \E t \in Conns :
        /\ JustReturned(t) /\ call[t].op = "subscribe"
        /\ call[t].message = "unknown category"
        /\ ~Known(call[t].conn)
        /\ \E c \in Conns : Subscribed(c)

\* C15: subscribe of a connection to a category it is already subscribed to
\* fails with "already subscribed" and leaves every subscriber set and every
\* category set as before the call.
C15_AlreadySubscribedRefused ==
    [][\A t \in Conns :
          Returns(t, "subscribe")
          /\ Lower(call'[t].category) \in CategoriesOf(CsubsBefore(t), call'[t].conn)
          => /\ ~call'[t].ok /\ call'[t].message = "already subscribed"
             /\ \A k \in available_categories :
                   subscriptions'[k] = SubsBefore(t)[k]
             /\ \A c \in Conns :
                   CategoriesOf(client_subscriptions', c)
                       = CategoriesOf(CsubsBefore(t), c)]_vars

\* a repeated subscribe was refused while another connection is subscribed to
\* the same category
C15_Witness ==
    \E t \in Conns :
        /\ JustReturned(t) /\ call[t].op = "subscribe"
        /\ call[t].message = "already subscribed"
        /\ get_subscribers(call[t].category) = Conns

\* C16: unsubscribe of a connection from a category it is not subscribed to,
\* whether it has no subscriptions or only other ones, fails and leaves the
\* registry as it was.
C16_NotSubscribedRefused ==
    [][\A t \in Conns :
          Returns(t, "unsubscribe")
          /\ Lower(call'[t].category) \notin CategoriesOf(CsubsBefore(t), call'[t].conn)
          => /\ ~call'[t].ok
             /\ call'[t].message \in {"not subscribed", "no subscriptions"}
             /\ subscriptions' = SubsBefore(t)
             /\ client_subscriptions' = CsubsBefore(t)]_vars

\* a connection that holds another subscription was refused
C16_Witness ==
    \E t \in Conns :
        /\ JustReturned(t) /\ call[t].op = "unsubscribe"
        /\ call[t].message = "not subscribed"
        /\ Lower(call[t].category) \in available_categories
        /\ Subscribed(call[t].conn)

\* C17: subscribe(c, k) with k configured and c not subscribed to k succeeds;
\* a successful subscribe adds c to the subscribers of k and k to the
\* categories of c, and changes no other subscriber set and no other
\* connection's category set.
C17_SubscribeFrame ==
    [][\A t \in Conns :
          Returns(t, "subscribe") =>
              LET c == call'[t].conn
                  k == Lower(call'[t].category)
              IN  /\ k \in available_categories
                     /\ k \notin CategoriesOf(CsubsBefore(t), c)
                     => call'[t].ok
                  /\ call'[t].ok =>
                        /\ k \in available_categories
                        /\ \A x \in available_categories :
                              subscriptions'[x] =
                                  IF x = k THEN SubsBefore(t)[x] \cup {c}
                                  ELSE SubsBefore(t)[x]
                        /\ \A x \in Conns :
                              CategoriesOf(client_subscriptions', x) =
                                  IF x = c
                                  THEN CategoriesOf(CsubsBefore(t), x) \cup {k}
                                  ELSE CategoriesOf(CsubsBefore(t), x)]_vars

\* a connection got its second subscription while the other connection holds
\* one as well
C17_Witness ==
    \E t \in Conns :
        /\ JustReturned(t) /\ call[t].op = "subscribe" /\ call[t].ok
        /\ get_client_subscriptions(call[t].conn) = available_categories
        /\ \E c \in Conns \ {call[t].conn} : Subscribed(c)

\* C18: a successful unsubscribe(c, k) removes c from the subscribers of k and
\* k from the categories of c and changes nothing else; a subscribe(c, k) that
\* comes right after it succeeds.
C18_UnsubscribeFrame ==
    [][\A t \in Conns :
          /\ Returns(t, "unsubscribe") /\ call'[t].ok =>
                LET c == call'[t].conn
                    k == Lower(call'[t].category)
                IN  /\ \A x \in available_categories :
                          subscriptions'[x] =
                              IF x = k THEN SubsBefore(t)[x] \ {c}
                              ELSE SubsBefore(t)[x]
                    /\ \A x \in Conns :
                          CategoriesOf(client_subscriptions', x) =
                              IF x = c
                              THEN CategoriesOf(CsubsBefore(t), x) \ {k}
                              ELSE CategoriesOf(CsubsBefore(t), x)
          /\ Returns(t, "subscribe")
             /\ PrecededBy(t).op = "unsubscribe" /\ PrecededBy(t).ok
             /\ PrecededBy(t).conn = call'[t].conn
             /\ Lower(PrecededBy(t).category) = Lower(call'[t].category)
             => call'[t].ok]_vars

\* a connection subscribed again right after its unsubscribe, while the other
\* connection is subscribed
C18_Witness ==
    \E t \in Conns :
        /\ JustReturned(t) /\ call[t].op = "subscribe" /\ call[t].ok
        /\ call[t].follows
        /\ \E c \in Conns \ {call[t].conn} : Subscribed(c)

\* C19: after remove_client(c), c is in no subscriber set and has no
\* categories, and the subscriptions of every other connection are as before.
C19_RemoveClientFrame ==
    [][\A t \in Conns :
          Returns(t, "remove_client") =>
              LET c == call'[t].conn
              IN  /\ \A k \in available_categories : c \notin subscriptions'[k]
                  /\ CategoriesOf(client_subscriptions', c) = {}
                  /\ \A x \in Conns \ {c} :
                        /\ CategoriesOf(client_subscriptions', x)
                               = CategoriesOf(CsubsBefore(t), x)
                        /\ \A k \in available_categories :
                              x \in subscriptions'[k] <=> x \in SubsBefore(t)[k]]_vars

\* a connection that a returned call had subscribed was removed, and the other
\* connection still holds both its subscriptions
C19_Witness ==
    \E t \in Conns :
        /\ JustReturned(t) /\ call[t].op = "remove_client" /\ ~call[t].follows
        /\ \E t2 \in Conns \ {t} :
              /\ pc[t2] = "returned" /\ call[t2].op = "subscribe" /\ call[t2].ok
              /\ call[t2].conn = call[t].conn
        /\ \E c \in Conns \ {call[t].conn} :
              get_client_subscriptions(c) = available_categories

\* C20: remove_client(c) right after remove_client(c), or for a connection
\* without a reverse entry, raises nothing and leaves the registry as it was.
C20_RemoveClientIdempotent ==
    [][\A t \in Conns :
          Returns(t, "remove_client")
          /\ \/ PrecededBy(t).op = "remove_client"
                /\ PrecededBy(t).conn = call'[t].conn
             \/ call'[t].conn \notin DOMAIN CsubsBefore(t)
          => /\ call'[t].ok
             /\ subscriptions' = SubsBefore(t)
             /\ client_subscriptions' = CsubsBefore(t)]_vars

\* a second remove_client of the same connection has returned while the other
\* connection is subscribed
C20_Witness ==
    \E t \in Conns :
        /\ JustReturned(t) /\ call[t].op = "remove_client" /\ call[t].ok
        /\ call[t].follows
        /\ \E c \in Conns \ {call[t].conn} : Subscribed(c)

\* ------------------------------------------------- contracts of the requests
\* this step ends the processing of the request of worker w
Answers(w) == pc[w] \in {"dispatch", "sub_reverse", "unsub_reverse"} /\ pc'[w] # pc[w]
\* some connection other than w holds a subscription
OthersSubscribed(w) == \E c \in Conns \ {w} : Subscribed(c)

\* C21: a Publish whose category is not configured is answered with one Error
\* to the publisher; its processing sends nothing else, appends nothing to
\* the store and consumes no id.
C21_InvalidPublishRefused ==
    [][\A w \in Conns :
          Answers(w) /\ req[w].type = PUBLISH
          /\ Category(w) \notin available_categories
          => /\ pc'[w] = "done"
             /\ Len(out'[w]) = 1
             /\ out'[w][1].type = ERROR /\ out'[w][1].to = w
             /\ news_list' = news_list
             /\ returned_ids' = returned_ids
             /\ clock' = clock]_vars

\* an invalid Publish was refused while the store holds an item and another
\* connection is subscribed
C21_Witness ==
    \E w \in Conns :
        /\ pc[w] = "done" /\ req[w].type = PUBLISH
        /\ Category(w) \notin available_categories
        /\ Len(out[w]) = 1 /\ out[w][1].type = ERROR
        /\ news_list # <<>>
        /\ OthersSubscribed(w)

\* C22: for one Publish, the NewsUpdate goes at most once to a connection and
\* only to connections of the snapshot taken for it; the Success goes to the
\* publisher with the id that add_news assigned, and a Publish that is over
\* has been acknowledged, also when the snapshot was empty.
C22_UpdateOncePerSubscriber ==
    \A w \in Conns :
        /\ \A i, j \in Updates(w) : out[w][i].to = out[w][j].to => i = j
        /\ Attempted(w) \subseteq subscribers[w]
        /\ \A a \in Acks(w) :
              /\ out[w][a].to = w
              /\ out[w][a].id = req[w].id
              /\ \E i \in DOMAIN returned_ids : returned_ids[i] = out[w][a].id
        /\ pc[w] = "done" /\ req[w].type = PUBLISH
           /\ Category(w) \in available_categories
           => Cardinality(Acks(w)) = 1

\* a Publish to a category without subscribers was acknowledged and nothing
\* else was sent
C22_Witness ==
    \E w \in Conns :
        /\ pc[w] = "done" /\ req[w].type = PUBLISH
        /\ subscribers[w] = {}
        /\ Len(out[w]) = 1 /\ Acks(w) = {1} /\ out[w][1].id > 0

\* C24: a frame of a type that is no request type is answered with one Error
\* that names the type, sent to the requester; the connection stays open and
\* neither the registry nor the store changes.
C24_UnknownTypeRefused ==
    [][\A w \in Conns :
          Answers(w) /\ req[w].type = UNKNOWN_TYPE
          => /\ pc'[w] = "done"
             /\ Len(out'[w]) = 1
             /\ out'[w][1].type = ERROR /\ out'[w][1].to = w
             /\ out'[w][1].text = UNKNOWN_TYPE
             /\ sock_closed' = sock_closed /\ clients' = clients
             /\ subscriptions' = subscriptions
             /\ client_subscriptions' = client_subscriptions
             /\ news_list' = news_list /\ returned_ids' = returned_ids]_vars

\* a subscribed connection sent a frame of unknown type, got the Error and is
\* back at its read, still subscribed
C24_Witness ==
    \E w \in Conns :
        /\ pc[w] = "done" /\ req[w].type = UNKNOWN_TYPE
        /\ Len(out[w]) = 1 /\ out[w][1].ok
        /\ Subscribed(w) /\ w \in clients /\ ~sock_closed[w]

\* C28: a Subscribe or Unsubscribe is answered with exactly one frame, sent to
\* the requester: Success when the call changed the connection's category
\* set, Error when it refused.
C28_OneReplyToRequester ==
    [][\A w \in Conns :
          Answers(w) /\ req[w].type \in {SUBSCRIBE, UNSUBSCRIBE}
          /\ pc'[w] \notin {"sub_reverse", "unsub_reverse"}
          => /\ pc'[w] = "done"
             /\ Len(out'[w]) = 1
             /\ out'[w][1].to = w
             /\ out'[w][1].type =
                   IF client_subscriptions' # client_subscriptions
                   THEN SUCCESS ELSE ERROR]_vars

\* an Unsubscribe succeeded and one Success went to the requester, while
\* another connection is subscribed
C28_Witness ==
    \E w \in Conns :
        /\ pc[w] = "done" /\ req[w].type = UNSUBSCRIBE
        /\ Len(out[w]) = 1 /\ out[w][1].type = SUCCESS /\ out[w][1].to = w
        /\ OthersSubscribed(w)

\* C23: a line that is no frame, be it text that is not JSON or JSON that is
\* not an object, is answered with one Error to the sender, and the worker
\* goes on with the connection open.
C23_MalformedAnswered ==
    \A w \in Conns :
        req[w].type \in {NOT_JSON, NON_OBJECT} /\ pc[w] # "dispatch"
        => /\ pc[w] = "done"
           /\ Len(out[w]) = 1
           /\ out[w][1].type = ERROR /\ out[w][1].to = w

\* C30: when the write of the file fails during add_news, remove_news_by_ids
\* or clear_history, nothing is raised to the caller, the call returns its
\* normal result and the list in memory is the one the call produces.
C30_SaveFailureSwallowed ==
    ~last_op.written =>
        /\ ~last_op.raised
        /\ last_op.op = "add" =>
              /\ last_op.news.id = Len(last_op.before) + 1
              /\ news_list =
                    ExpectedLast(Append(last_op.before, last_op.news), MAX_NEWS_HISTORY)
        /\ last_op.op = "remove" =>
              /\ news_list =
                    SelectSeq(last_op.before,
                              LAMBDA n : n.id \notin Range(last_op.ids))
              /\ last_op.removed_count = Len(last_op.before) - Len(news_list)
        /\ last_op.op = "clear" => news_list = <<>>

\* an item was removed from a full list while the disk was failing: the file
\* is unreadable and the list in memory has the outcome
C30_Witness ==
    /\ last_op.op = "remove" /\ ~last_op.written
    /\ last_op.removed_count = 1
    /\ Len(last_op.before) = MAX_NEWS_HISTORY
    /\ saved_file = Unreadable
    /\ news_list # <<>>

\* what the read loop hands to _process_message when all the bytes of the
\* stream arrive in one read
OneRead(stream) ==
    ReadPass([NoRx EXCEPT !.stage = "reading", !.stream = stream,
                          !.chunks = <<stream>>], stream)

\* C25: a byte stream that arrives in two reads, cut at any byte offset,
\* yields the lines it yields when it arrives in one read, and the connection
\* is not torn down.
C25_SplitReadsAgree ==
    rx.stage \in {"waiting", "torn_down"} =>
        /\ rx.stage = "waiting"
        /\ rx.frames = OneRead(rx.stream).frames
        /\ rx.buffer = OneRead(rx.stream).buffer

\* the fields a message is expected to carry: those given to create, none
\* when no mapping was given
FieldsGiven == AsMapping(codec.data.items)
NewlinesIn(text) == {i \in DOMAIN text : text[i] = "LF"}

\* C26: parse(create(type, fields)) has the type and the fields given to
\* create, whatever characters the strings hold and also for no fields, and
\* the text made by create holds one line feed, its last character.
C26_RoundTrip ==
    /\ codec.stage # "idle" => NewlinesIn(codec.text) = {Len(codec.text)}
    /\ codec.stage = "parsed" =>
           /\ codec.frame.ok
           /\ codec.frame.type = codec.msg_type
           /\ codec.frame.data = FieldsGiven

\* a message whose field holds a non-ASCII letter and a line feed, and whose
\* type holds a quote, has been built and parsed back
C26_Witness ==
    /\ codec.stage = "parsed"
    /\ codec.msg_type = <<"e_acute", "QUOTE">>
    /\ \E j \in DOMAIN codec.data.items :
           codec.data.items[j][2] = <<"e_acute", "LF">>
    /\ codec.frame.ok
    /\ codec.frame.data = FieldsGiven

\* the state Closed of a connection
Closed(c) ==
    /\ pc[c] = "closed"
    /\ sock_closed[c]
    /\ c \notin clients
    /\ c \notin DOMAIN client_subscriptions
    /\ \A k \in DOMAIN subscriptions : c \notin subscriptions[k]
\* the peer has closed or reset, the read has failed, or a Disconnect frame is
\* about to be processed
Leaving(c) ==
    \/ peer_gone[c]
    \/ pc[c] = "td_remove"
    \/ pc[c] = "dispatch" /\ req[c].type = DISCONNECT
DisconnectAcked(w) ==
    pc[w] = "dispatch" /\ req[w].type = DISCONNECT /\ pc'[w] # pc[w] =>
        /\ Len(out'[w]) = Len(out[w]) + 1
        /\ out'[w][Len(out'[w])].to = w
        /\ out'[w][Len(out'[w])].type = SUCCESS
        /\ sock_closed'[w]

C29_PublishCompletes ==
    \A w \in Conns : pc[w] = "bc_snapshot" ~> pc[w] = "done"

\* the last call changed the list and called _save_to_file
Saved ==
    \/ last_op.op \in {"add", "clear"}
    \/ last_op.op = "remove" /\ last_op.removed_count > 0

\* C31: clear_history leaves the list empty; and after add_news, a
\* remove_news_by_ids that removed something, or clear_history, when the write
\* did not fail, the file holds the list in memory, item for item, in order.
C31_FileEqualsMemory ==
    /\ last_op.op = "clear" => Len(news_list) = 0
    /\ Saved /\ last_op.written =>
           /\ saved_file.readable
           /\ saved_file.news = news_list

\* a list with items was cleared with the disk working: the file holds the
\* empty list
C31_Witness ==
    /\ last_op.op = "clear" /\ last_op.written
    /\ Len(last_op.before) = MAX_NEWS_HISTORY
    /\ saved_file = FileOf(<<>>)
    /\ news_list = <<>>

\* the threads between the acquisition and the release of the store's lock
InAddNews == {t \in Conns : pc[t] \notin {"store_idle", "add_wait"}}
Writing == {t \in Conns : pc[t] = "add_dump"}

\* C32: add_news runs one thread at a time from the id to the write: at most
\* one thread is inside it and at most one has the file open; outside it the
\* list holds the last MAX_NEWS_HISTORY records built, in the order they were
\* built, and the file holds the list.
C32_AppendAtomic ==
    /\ Cardinality(InAddNews) <= 1
    /\ Cardinality(Writing) <= 1
    /\ InAddNews = {} =>
           /\ news_list = ExpectedLast(built, MAX_NEWS_HISTORY)
           /\ Len(returned_ids) = Len(built)
           /\ saved_file = FileOf(news_list)

\* one thread has the file open while the other waits for the lock, after an
\* append that evicted a record
C32_Witness ==
    /\ pc["c1"] = "add_dump" /\ pc["c2"] = "add_wait"
    /\ Len(built) > MAX_NEWS_HISTORY
    /\ Len(news_list) = MAX_NEWS_HISTORY

\* a step in which worker w sends, receives or closes
NetworkIO(w) ==
    \/ out'[w] # out[w] /\ out'[w] # <<>>
    \/ sock_closed'[w] # sock_closed[w]
    \/ pc[w] = "recv" /\ pc'[w] # "recv"
RegistryChanges ==
    subscriptions' # subscriptions \/ client_subscriptions' # client_subscriptions

\* C33: a worker in the fan-out loop does not hold the registry lock, no step
\* that sends, receives or closes ends with its worker holding it, and a
\* change of the registry during a fan-out leaves the set being iterated as
\* it was copied.
C33_NoIOUnderRegistryLock ==
    /\ [](\A w \in Conns : pc[w] \in {"bc_send", "recv"} => reg_lock # w)
    /\ [][\A w \in Conns :
             /\ NetworkIO(w) => reg_lock' # w
             /\ pc[w] = "bc_send" /\ RegistryChanges =>
                    /\ subscribers'[w] = subscribers[w]
                    /\ todo'[w] = todo[w]]_vars

\* during a fan-out that still has c to visit, c has unsubscribed and got its
\* reply: the registry no longer holds c, the copy does
C33_Witness ==
    \E w \in Conns : \E c \in Conns \ {w} :
        /\ pc[w] = "bc_send" /\ c \in todo[w]
        /\ c \notin subscriptions[Category(w)]
        /\ pc[c] = "done" /\ req[c].type = UNSUBSCRIBE
        /\ Len(out[c]) = 1 /\ out[c][1].type = SUCCESS

\* add_news has returned the id the worker holds for its Publish
StoredFor(w) ==
    /\ req[w].type = PUBLISH
    /\ req[w].id > 0
    /\ \E i \in DOMAIN returned_ids : returned_ids[i] = req[w].id
    /\ clock <= MAX_NEWS_HISTORY =>
           \E i \in DOMAIN news_list :
              /\ news_list[i].id = req[w].id
              /\ news_list[i].category = Category(w)

\* C34: a NewsUpdate is sent only by a worker whose Publish has been stored:
\* add_news has returned its id (and, as long as nothing was evicted, the
\* list holds the item) and the file was written, before the first send.
C34_StoredBeforeUpdate ==
    /\ [](\A w \in Conns : Updates(w) # {} => StoredFor(w))
    /\ [][\A w \in Conns :
             Updates(w) = {} /\ Updates(w)' # {} =>
                /\ StoredFor(w)
                /\ saved_file.readable /\ Len(saved_file.news) >= 1]_vars

\* a Publish was stored, sent to the other connection and acknowledged
C34_Witness ==
    \E w \in Conns : \E c \in Conns \ {w} :
        /\ pc[w] = "done" /\ StoredFor(w)
        /\ \E i \in Updates(w) : out[w][i].to = c /\ out[w][i].ok
        /\ Acks(w) # {}

\* the connection is in some category's set or is a key of the reverse map
InRegistry(c) ==
    \/ c \in DOMAIN client_subscriptions
    \/ \E k \in DOMAIN subscriptions : c \in subscriptions[k]

\* C35: a connection that is out of the registry and is no longer in the set
\* of clients, or whose socket has been closed, is not put back into the
\* registry by a later step.
C35_NoReturnToRegistry ==
    [][\A c \in Conns :
          (c \notin clients \/ sock_closed[c]) /\ ~InRegistry(c) /\ pc[c] # "unborn"
              => ~InRegistry(c)']_vars

\* the worker has processed a Disconnect (the socket is closed) and has not
\* yet entered the teardown
Disconnected(w) ==
    /\ sock_closed[w]
    /\ pc[w] \notin {"td_remove", "td_delete", "td_discard", "td_close", "closed"}

\* C36: after its Disconnect was processed, a step of the connection's worker
\* changes neither the registry nor the store and sends no NewsUpdate.
C36_NothingAfterDisconnect ==
    [][\A w \in Conns :
          Disconnected(w) /\ pc'[w] # pc[w] =>
             /\ subscriptions' = subscriptions
             /\ client_subscriptions' = client_subscriptions
             /\ news_list' = news_list /\ clock' = clock
             /\ Updates(w)' \subseteq Updates(w)]_vars

\* the thread is at a Lock.acquire
AtAcquire(t) == steps[t] # <<>> /\ Head(steps[t]).op = "acquire"
CanStep(t) ==
    /\ steps[t] # <<>>
    /\ AtAcquire(t) => Holder(Head(steps[t]).lock) = NoThread

\* C37: no thread reaches the acquisition of one of the three locks while it
\* holds another, and whenever some thread is inside a code path some thread
\* can take its next step: no set of threads waits for each other.
C37_NoNestedLocks ==
    /\ \A t \in LockThreads : AtAcquire(t) => Holds(t) = {}
    /\ (\E t \in LockThreads : steps[t] # <<>>) => \E t \in LockThreads : CanStep(t)

\* a worker in the cleanup of a broadcast waits for clients_lock, held by
\* stop(), while the other worker holds the registry lock in its teardown
C37_Witness ==
    /\ clients_lock = "main"
    /\ AtAcquire("c1") /\ Head(steps["c1"]).lock = "clients"
    /\ Len(steps["c1"]) = 2
    /\ reg_lock = "c2" /\ Len(steps["c2"]) = 3
    /\ AtAcquire("accept")

\* C38: what the peer of a connection receives from two workers sending at
\* the same time is each frame's bytes in one piece: between two bytes of one
\* frame there is no byte of the other.
C38_FramesContiguous ==
    \A i, j, k \in DOMAIN wire :
        i < j /\ j < k /\ wire[i].from = wire[k].from => wire[j].from = wire[i].from

\* C39: for every limit >= 0, limit = 0 included, get_news_by_category and
\* get_all_news return at most limit items.
C39_AtMostLimit ==
    last_op.op \in {"query_category", "query_all"} =>
        Len(last_op.result) <= last_op.limit

\* the worker thread of every accepted connection has ended, and the accept
\* thread holds no socket it has yet to hand to a worker
AllWorkersTerminated ==
    /\ \A c \in Conns : pc[c] \in {"unborn", "closed"}
    /\ acceptor.conn = NoThread

\* C40: after stop() was called, once all workers have terminated the
\* live-connection set is empty and the registry contains no connection; this
\* also holds when a connection was accepted while stop() ran.
C40_StoppedLeavesNothing ==
    stopping # "idle" /\ AllWorkersTerminated =>
        clients = {} /\ \A c \in Conns : ~InRegistry(c)

\* stop() has returned and all workers have ended; one connection was added
\* to the live set after stop() had cleared it, and the other one was torn
\* down by its worker after stop() closed its socket
C40_Witness ==
    /\ stopping = "stopped" /\ AllWorkersTerminated
    /\ acceptor.after_clear # {}
    /\ \E c \in Conns : pc[c] = "closed" /\ c \notin acceptor.after_clear

====
